---- MODULE Spec2Model ----
(***************************************************************************)
(* Patient-flow discrete-event simulation of the CT-scanner study           *)
(* (ct_scan_shands_des_v1.3_WIP.py, ct_scan_shands_des_current.py).         *)
(*                                                                         *)
(* The simulation kernel is simpy: an event heap ordered by (time,          *)
(* priority, event id), generator processes resumed by the events they      *)
(* yield, and Resource pools with a FIFO put_queue.  One model step is one  *)
(* event popped from the heap, with everything its callbacks run.  Simulated *)
(* time is in whole minutes; every random draw is a choice from a small set. *)
(***************************************************************************)
EXTENDS Integers, Sequences, FiniteSets, TLC

VARIABLES
    variant,                \* which source file's simulate_one_day runs
    stub,                   \* TRUE: the samplers are the end-to-end scenario's stubs
    long_prep,              \* TRUE: step C2 is drawn from two values, not one
    scenario_name,
    NUM_SCANNERS,
    NUM_ROBOTS,
    arrival_times,          \* sequence; patient_id p has arrival_times[p + 1]
    now,                    \* env.now
    queue,                  \* env._queue: set of scheduled events
    eid,                    \* env._eid: number of events scheduled so far
    pc,                     \* where each process generator is suspended
    scanners,               \* simpy.Resource: [users, put_queue]
    robots,                 \* simpy.Resource (unused when robots is None)
    time_when_ct_requested,
    time_when_robot_requested,
    robot_time,             \* the patient's drawn robot occupancy
    downtime_start,         \* apply_scanner_downtime's local `start`, per live process
    collected_metrics,      \* [robot_waits, ct_waits, robot_busy]
    scanner_events,         \* sequence of [patient_id, sched, start, end]
    day_result,             \* simulate_one_day's return value, NoResult while running
    request_log,            \* history: requests in the order they were issued
    grant_log,              \* history: requests in the order they were granted
    \* generate_patient_arrivals_workflow_derived
    gen_pc,                 \* "daily", "hours" or "returned"; "idle" during a simulated day
    deterministic,
    deterministic_daily_patients,   \* None or a rational <<numerator, denominator>>
    daily_patients,         \* rational <<numerator, denominator>>
    hour,
    carry,                  \* numerator of the carry over 240 * daily_patients[2]
    current_time,
    arrival_list,           \* arrival_times being built: rationals, in minutes
    crossing_draws,         \* history: draws that went past the hour's end
    \* the duration samplers, called on their own
    sampling,               \* the call in progress: [fn, args, redrawn], or NotSampling
    samples,                \* history: the calls that returned, [fn, args, value, redrawn]
    \* run_many_simulations
    day_num,                \* the loop variable: the day being simulated
    all_results,            \* the all_* lists, one field each
    run_result,             \* the returned averages, NoResult until the return
    \* the `random` module's generator and the calls made after one seeding
    rng,                    \* [stream, pos]: the seed's stream and the draws consumed
    runs,                   \* history: what each returned call of the entry point drew
    run_exams,              \* the exam durations the call in progress has drawn
    \* the configuration tables and how a call of simulate_one_day ended
    config_fault,           \* what is wrong in the tables, or "none"
    raised,                 \* "none", or where an exception left simulate_one_day
    \* simulate_day, the single-scanner day of the first studies
    exam_index,             \* the loop variable i
    ct_free,                \* when the scanner becomes free
    idle,                   \* accumulated idle minutes
    exams,                  \* history: [sched, arrival, start, dur] of each exam served
    \* calculate_simple_payback_period
    cash_flows,             \* the argument
    payback                 \* NotReturned, or the return: None, or a value in hundredths

desVars == <<variant, stub, long_prep, scenario_name, NUM_SCANNERS, NUM_ROBOTS,
             arrival_times, now, queue, eid, pc, scanners, robots,
             time_when_ct_requested, time_when_robot_requested, robot_time,
             downtime_start, collected_metrics, scanner_events, day_result,
             request_log, grant_log>>

genVars == <<gen_pc, deterministic, deterministic_daily_patients, daily_patients,
             hour, carry, current_time, arrival_list, crossing_draws>>

samplerVars == <<sampling, samples>>

manyVars == <<day_num, all_results, run_result>>

seedVars == <<rng, runs, run_exams>>

faultVars == <<config_fault, raised>>

dayVars == <<exam_index, ct_free, idle, exams>>

payVars == <<cash_flows, payback>>

laterVars == <<dayVars, payVars>>

auxVars == <<samplerVars, manyVars, seedVars, faultVars, laterVars>>

vars == <<desVars, genVars, auxVars>>

----------------------------------------------------------------------------
(* Program constants *)

DAY_LENGTH_MIN == 1440
TURNOVER_MINUTES == 4
SCANNER_UPTIME_PERCENT == 90
RUN_BUFFER_MIN == 240

(* Bounds of the model *)
MaxPatients == 3

(* Pool capacities the model runs with (module-level configuration in the    *)
(* sources; 1 scanner is the end-to-end scenario's).                         *)
ScannerCounts == {1, 2}
RobotCounts == {1}

(* Arrival timestamps a day is built from: minutes in [0, DAY_LENGTH_MIN).   *)
SchedTimes == {0, 1435}

(* Draws of random.lognormvariate for one workflow step: the queue-wait step *)
(* A varies, the short steps take one minute; with long_prep the scanner    *)
(* prep C2 takes one minute or fifteen.                                     *)
LogNormalDraws(step_name) ==
    IF step_name = "A" THEN {5, 15, 235}
    ELSE IF step_name = "C2" /\ long_prep THEN {1, 15}
    ELSE {1}

(* Draws of random.gauss(12, 3) and random.gauss(10.0, 2.0), some outside   *)
(* the accepted range.                                                      *)
ExamGaussDraws == {4, 5, 25, 26}
RepositionGaussDraws == {4, 10, 16}

(* Draws of random.uniform(0, hi) for the downtime start: both ends.        *)
UniformDraws(hi) == {0, hi}

NoResult == [done |-> FALSE]

NotSampling == [fn |-> "none"]

(* The variables of the other studies while a day or the arrival generator  *)
(* runs.                                                                    *)
(* run_many_simulations' lists before its loop *)
NoDays == [robot_waits |-> <<>>, ct_waits |-> <<>>, idle_times |-> <<>>,
           total_patients |-> <<>>, completed_scans |-> <<>>,
           scanner_utils |-> <<>>, robot_busy |-> <<>>]

ManyIdle ==
    /\ day_num = 0
    /\ all_results = NoDays
    /\ run_result = NoResult

(* No seeded call is followed: the generator is left at its seeding *)
SeedIdle ==
    /\ rng = [stream |-> <<>>, pos |-> 0]
    /\ runs = <<>>
    /\ run_exams = <<>>

(* The configuration tables are the sources' own *)
FaultIdle ==
    /\ config_fault = "none"
    /\ raised = "none"

(* simulate_day is not running *)
DayIdle ==
    /\ exam_index = 0
    /\ ct_free = 0
    /\ idle = 0
    /\ exams = <<>>

NotReturned == [returned |-> FALSE]

(* calculate_simple_payback_period is not called *)
PayIdle ==
    /\ cash_flows = <<>>
    /\ payback = NotReturned

LaterIdle == DayIdle /\ PayIdle

AuxIdle ==
    /\ LaterIdle
    /\ sampling = NotSampling
    /\ samples = <<>>
    /\ ManyIdle
    /\ SeedIdle
    /\ FaultIdle

----------------------------------------------------------------------------
(* Helpers on sequences *)

RECURSIVE SumSeq(_)
SumSeq(s) == IF s = <<>> THEN 0 ELSE Head(s) + SumSeq(Tail(s))

Max2(a, b) == IF a >= b THEN a ELSE b

SeqRemove(s, x) == SelectSeq(s, LAMBDA y : y # x)

IsSorted(s) == \A i \in 1..(Len(s) - 1) : s[i] <= s[i + 1]

SortedSeqs(S, n) ==
    UNION {{s \in [1..k -> S] : IsSorted(s)} : k \in 0..n}

----------------------------------------------------------------------------
(* Configuration of one simulated day *)

WIP == "v1.3_WIP"
CURRENT == "current"

has_robots == scenario_name \notin {"baseline", "wf_only"}

(* downtime_minutes = DAY_LENGTH_MIN * (1.0 - SCANNER_UPTIME); the current  *)
(* file starts no downtime process.                                         *)
downtime_minutes ==
    IF variant = WIP
    THEN (DAY_LENGTH_MIN * (100 - SCANNER_UPTIME_PERCENT)) \div 100
    ELSE 0

run_until == DAY_LENGTH_MIN + RUN_BUFFER_MIN

ScannerCapacity_OneMore == NUM_SCANNERS + 1
ScannerCapacity == NUM_SCANNERS
RobotCapacity == NUM_ROBOTS

Maint(i) == <<"maint", i>>
Patient(p) == <<"patient", p>>
IsPatient(proc) == proc[1] = "patient"
patient_ids == 0..(Len(arrival_times) - 1)
MaintProcs == IF variant = WIP THEN {Maint(i) : i \in 1..NUM_SCANNERS} ELSE {}
PatientProcs == {Patient(p) : p \in patient_ids}
Procs == MaintProcs \cup PatientProcs
scheduled_time_AtOnce(proc) == 0

scheduled_time(proc) == arrival_times[proc[2] + 1]

----------------------------------------------------------------------------
(* Samplers: the set of values a call can return *)

(* STEP_MEANS, in hundredths of a minute *)
StepMeansX100(step_name, column) ==
    CASE step_name = "P" -> 2743
      [] step_name = "A" ->
            IF column \in {"rovis_workflow", "wf_only"} THEN 3500 ELSE 5167
      [] step_name = "B1" -> IF column \in {"baseline", "wf_only"} THEN 1177 ELSE 294
      [] step_name = "B2" -> IF column \in {"baseline", "wf_only"} THEN 338 ELSE 85
      [] step_name = "B3" ->
            IF column \in {"baseline", "wf_only"} THEN 655
            ELSE IF variant = WIP THEN 439 ELSE 164
      [] step_name = "C1" -> 500
      [] step_name = "C2" -> 160
      [] step_name = "C3" -> 1211

(* Scenarios whose days are drawn column by column: a step's draw is its   *)
(* mean in the column asked for, to the nearest minute.                     *)
WorkflowScenarios == {"rovis_workflow", "wf_only"}

MeanDraws(step_name, column) == {(StepMeansX100(step_name, column) + 50) \div 100}

(* math.log(average_time) raises for an average that is not positive: the   *)
(* call then returns no value.  A step without a STEP_SIGMA entry is drawn  *)
(* with the default variability.                                            *)
get_step_duration(step_name, column) ==
    IF config_fault = "nonpositive_step_mean" /\ step_name = "A" THEN {}
    ELSE IF scenario_name \in WorkflowScenarios THEN MeanDraws(step_name, column)
    ELSE LogNormalDraws(step_name)

generate_exam_duration ==
    IF stub THEN {12} ELSE {d \in ExamGaussDraws : 5 <= d /\ d <= 25}

generate_robot_repositioning_time ==
    {d \in RepositionGaussDraws : 5 <= d /\ d <= 15}

calculate_patient_transport_time(column) ==
    IF stub THEN {0}
    ELSE {a + b1 + b2 + b3 + c1 + c2 :
            a \in get_step_duration("A", column),
            b1 \in get_step_duration("B1", column),
            b2 \in get_step_duration("B2", column),
            b3 \in get_step_duration("B3", column),
            c1 \in get_step_duration("C1", column),
            c2 \in get_step_duration("C2", column)}

calculate_robot_time(column) ==
    {b1 + b2 + b3 + c1 + r :
        b1 \in get_step_duration("B1", column),
        b2 \in get_step_duration("B2", column),
        b3 \in get_step_duration("B3", column),
        c1 \in get_step_duration("C1", column),
        r \in generate_robot_repositioning_time}

failed_robot_time_Released == {0}

(* the occupancy of a robot that failed: the same steps from the baseline   *)
(* column, and the repositioning                                            *)
failed_robot_time == calculate_robot_time("baseline")

total_scanner_time_ExamOnly(exam_time) == exam_time

total_scanner_time_Negated(exam_time) == TURNOVER_MINUTES - exam_time

total_scanner_time(exam_time) ==
    IF variant = WIP THEN exam_time + TURNOVER_MINUTES ELSE exam_time

----------------------------------------------------------------------------
(* The event heap: (time, priority, eid) order, URGENT = 0 before NORMAL = 1 *)

URGENT == 0
NORMAL == 1

Ev(t, prio, id, kind, proc, pool) ==
    [time |-> t, prio |-> prio, eid |-> id, kind |-> kind, proc |-> proc, pool |-> pool]

Before(e, f) ==
    \/ e.time < f.time
    \/ e.time = f.time /\ e.prio < f.prio
    \/ e.time = f.time /\ e.prio = f.prio /\ e.eid < f.eid

IsNext(e) == e \in queue /\ \A f \in queue \ {e} : Before(e, f)

Running == ~day_result.done /\ raised = "none"

----------------------------------------------------------------------------
(* simpy.Resource: request appends to put_queue and triggers the queue head; *)
(* the head is granted while fewer than `capacity` requests are users.      *)

HasFreeUnit(res, capacity) == Len(res.users) < capacity

TriggerPut_DropsBlocked(res, capacity) ==
    IF res.put_queue # <<>> /\ HasFreeUnit(res, capacity)
    THEN [res |-> [users |-> Append(res.users, Head(res.put_queue)),
                   put_queue |-> Tail(res.put_queue)],
          granted |-> <<Head(res.put_queue)>>]
    ELSE [res |-> [res EXCEPT !.put_queue = IF @ = <<>> THEN @ ELSE Tail(@)],
          granted |-> <<>>]

TriggerPut_Idle(res, capacity) == [res |-> res, granted |-> <<>>]

(* _trigger_put / _do_put: at most the head of put_queue is granted.        *)
TriggerPut(res, capacity) ==
    IF res.put_queue # <<>> /\ HasFreeUnit(res, capacity)
    THEN [res |-> [users |-> Append(res.users, Head(res.put_queue)),
                   put_queue |-> Tail(res.put_queue)],
          granted |-> <<Head(res.put_queue)>>]
    ELSE [res |-> res, granted |-> <<>>]

Request_Lifo(res, capacity, proc) ==
    TriggerPut([res EXCEPT !.put_queue = <<proc>> \o @], capacity)

(* put_queue kept in (kind, id) order instead of request order *)
ById(q, proc) ==
    LET k == Cardinality({i \in 1..Len(q) :
                 \/ ~IsPatient(q[i]) /\ IsPatient(proc)
                 \/ q[i][1] = proc[1] /\ q[i][2] <= proc[2]})
    IN SubSeq(q, 1, k) \o <<proc>> \o SubSeq(q, k + 1, Len(q))

Request_ById(res, capacity, proc) ==
    TriggerPut([res EXCEPT !.put_queue = ById(@, proc)], capacity)

Request(res, capacity, proc) ==
    TriggerPut([res EXCEPT !.put_queue = Append(@, proc)], capacity)

Release_Kept(res, proc) == res

Release(res, proc) == [res EXCEPT !.users = SeqRemove(@, proc)]

(* The events a grant schedules: the granted request succeeds at `now`.     *)
GrantEvents(granted, pool, t, id) ==
    {Ev(t, NORMAL, id, "request", granted[i], pool) : i \in 1..Len(granted)}

GrantLog(granted, pool) ==
    IF granted = <<>> THEN grant_log ELSE Append(grant_log, <<pool, granted[1]>>)

NoProc == <<"none", 0>>

----------------------------------------------------------------------------
(* simulate_one_day's post-pass over the scanner events *)

(* list.sort(key=start) is stable: an event goes after those with start <=. *)
InsertByStart(sorted, e) ==
    LET k == Cardinality({i \in 1..Len(sorted) : sorted[i].start <= e.start})
    IN SubSeq(sorted, 1, k) \o <<e>> \o SubSeq(sorted, k + 1, Len(sorted))

RECURSIVE SortByStart(_)
SortByStart(events) ==
    IF events = <<>> THEN <<>>
    ELSE InsertByStart(SortByStart(SubSeq(events, 1, Len(events) - 1)),
                       events[Len(events)])

MinOf(free) == CHOOSE m \in {free[k] : k \in 1..Len(free)} :
                   \A k \in 1..Len(free) : m <= free[k]

EarliestFree_First(free) == 1

(* scanner_free_times.index(min(scanner_free_times)), as a 1-based position *)
EarliestFree(free) ==
    CHOOSE k \in 1..Len(free) :
        free[k] = MinOf(free) /\ \A j \in 1..(k - 1) : free[j] # MinOf(free)

IdleGap_BackToBack(exam, free_time) == 0

IdleGap(exam, free_time) == Max2(0, exam.start - free_time)

TailIdle(free_time) == Max2(0, DAY_LENGTH_MIN - free_time)

PostPassStep(st, exam) ==
    LET k == EarliestFree(st.scanner_free_times)
    IN [scanner_free_times |-> [st.scanner_free_times EXCEPT ![k] = exam.end],
        total_idle_time |-> st.total_idle_time + IdleGap(exam, st.scanner_free_times[k]),
        busy_minutes |-> [st.busy_minutes EXCEPT ![k] = @ + (exam.end - exam.start)],
        idle_gaps |-> [st.idle_gaps EXCEPT ![k] = @ + IdleGap(exam, st.scanner_free_times[k])],
        free_before |-> Append(st.free_before, st.scanner_free_times[k]),
        exams |-> Append(st.exams, [patient_id |-> exam.patient_id, sched |-> exam.sched,
                                    start |-> exam.start, end |-> exam.end,
                                    scanner |-> k - 1])]

RECURSIVE PostPassFrom(_, _, _)
PostPassFrom(st, completed_exams, i) ==
    IF i > Len(completed_exams) THEN st
    ELSE PostPassFrom(PostPassStep(st, completed_exams[i]), completed_exams, i + 1)

PostPass(events, n) ==
    LET zeros == [k \in 1..n |-> 0]
        st == PostPassFrom([scanner_free_times |-> zeros, total_idle_time |-> 0,
                            busy_minutes |-> zeros, idle_gaps |-> zeros,
                            free_before |-> <<>>, exams |-> <<>>],
                           SortByStart(events), 1)
        tails == [k \in 1..n |-> TailIdle(st.scanner_free_times[k])]
    IN [st EXCEPT !.total_idle_time = @ + SumSeq(tails)]

TotalPatients_Scanned == Len(scanner_events)

(* 'total_patients': len(arrival_times) *)
TotalPatients == Len(arrival_times)

DayResult(events) ==
    LET pp == PostPass(events, NUM_SCANNERS)
    IN [done |-> TRUE,
        robot_waits |-> collected_metrics.robot_waits,
        ct_waits |-> collected_metrics.ct_waits,
        total_idle_time |-> pp.total_idle_time,   \* idle_per_scanner * NUM_SCANNERS
        total_patients |-> TotalPatients,
        completed_scans |-> Len(pp.exams),
        scanner_events |-> pp.exams,
        busy_minutes |-> pp.busy_minutes,
        robot_busy_minutes |-> IF has_robots THEN collected_metrics.robot_busy ELSE 0,
        \* locals of the post-pass, kept for the per-scanner accounting
        scanner_free_times |-> pp.scanner_free_times,
        idle_gaps |-> pp.idle_gaps,
        free_before |-> pp.free_before]

----------------------------------------------------------------------------
(* State after simulate_one_day has created every process and env.run has   *)
(* scheduled its `until` event: one Initialize event per process, downtime  *)
(* processes first, then patients in arrival order.                         *)

EmptyPool == [users |-> <<>>, put_queue |-> <<>>]

None == <<>>

(* The arrival generator's variables while a day is simulated from a given  *)
(* arrival list.                                                            *)
GenIdle ==
    /\ gen_pc = "idle"
    /\ deterministic = FALSE
    /\ deterministic_daily_patients = None
    /\ daily_patients = <<0, 1>>
    /\ hour = 0
    /\ carry = 0
    /\ current_time = 0
    /\ arrival_list = <<>>
    /\ crossing_draws = 0

InitQueue ==
    LET nm == Cardinality(MaintProcs)
        np == Len(arrival_times)
    IN {Ev(0, URGENT, i - 1, "init", Maint(i), "none") : i \in 1..nm}
       \cup {Ev(0, URGENT, nm + q, "init", Patient(q), "none") : q \in 0..(np - 1)}
       \cup {Ev(run_until, URGENT, nm + np, "until", NoProc, "none")}

Scenarios == {"baseline", "rovis_only"}

Init ==
    /\ stub \in BOOLEAN
    /\ long_prep = FALSE
    /\ IF stub
       THEN /\ variant = CURRENT
            /\ scenario_name = "baseline"
            /\ NUM_SCANNERS = 1
            /\ NUM_ROBOTS = 1
            /\ arrival_times = <<0, 60, 120>>
       ELSE /\ variant \in {WIP, CURRENT}
            /\ scenario_name \in Scenarios
            /\ NUM_SCANNERS \in ScannerCounts
            /\ NUM_ROBOTS \in RobotCounts
            /\ arrival_times \in SortedSeqs(SchedTimes, MaxPatients)
    /\ now = 0
    /\ queue = InitQueue
    /\ eid = Cardinality(InitQueue)
    /\ pc = [proc \in Procs |-> "init"]
    /\ scanners = EmptyPool
    /\ robots = EmptyPool
    /\ time_when_ct_requested = [proc \in PatientProcs |-> 0]
    /\ time_when_robot_requested = [proc \in PatientProcs |-> 0]
    /\ robot_time = [proc \in PatientProcs |-> 0]
    /\ downtime_start = <<>>
    /\ collected_metrics = [robot_waits |-> <<>>, ct_waits |-> <<>>, robot_busy |-> 0]
    /\ scanner_events = <<>>
    /\ day_result = NoResult
    /\ request_log = <<>>
    /\ grant_log = <<>>
    /\ GenIdle
    /\ AuxIdle

cfgVars == <<variant, stub, long_prep, scenario_name, NUM_SCANNERS, NUM_ROBOTS,
             arrival_times>>

(* env.step(): pop the least event, advance env.now to its time.            *)
Pop(e) ==
    /\ Running
    /\ IsNext(e)
    /\ now' = e.time
    /\ UNCHANGED cfgVars
    /\ UNCHANGED genVars
    /\ UNCHANGED auxVars

Timeout(t, delay, id, proc) == Ev(t + delay, NORMAL, id, "timeout", proc, "none")

----------------------------------------------------------------------------
(* apply_scanner_downtime *)

\* Initialize: run to `yield env.timeout(start)`, or return at once.
MaintInitialize(e) ==
    /\ Pop(e) /\ e.kind = "init" /\ ~IsPatient(e.proc)
    /\ IF downtime_minutes <= 0
       THEN /\ pc' = [pc EXCEPT ![e.proc] = "done"]
            /\ queue' = queue \ {e}
            /\ eid' = eid
            /\ UNCHANGED downtime_start
       ELSE \E start \in UniformDraws(Max2(0, DAY_LENGTH_MIN - downtime_minutes)) :
            /\ downtime_start' = (e.proc :> start) @@ downtime_start
            /\ pc' = [pc EXCEPT ![e.proc] = "dt_start"]
            /\ queue' = (queue \ {e}) \cup {Timeout(e.time, start, eid, e.proc)}
            /\ eid' = eid + 1
    /\ UNCHANGED <<scanners, robots, time_when_ct_requested, time_when_robot_requested,
                   robot_time, collected_metrics, scanner_events, day_result, request_log, grant_log>>

\* `with scanners.request() as req: yield req`
MaintRequest(e) ==
    /\ Pop(e) /\ e.kind = "timeout" /\ pc[e.proc] = "dt_start"
    /\ UNCHANGED downtime_start
    /\ LET r == Request(scanners, ScannerCapacity, e.proc)
       IN /\ scanners' = r.res
          /\ queue' = (queue \ {e}) \cup GrantEvents(r.granted, "scanners", e.time, eid)
          /\ eid' = eid + Len(r.granted)
          /\ grant_log' = GrantLog(r.granted, "scanners")
    /\ request_log' = Append(request_log, <<"scanners", e.proc>>)
    /\ pc' = [pc EXCEPT ![e.proc] = "dt_wait"]
    /\ UNCHANGED <<robots, time_when_ct_requested, time_when_robot_requested,
                   robot_time, collected_metrics, scanner_events, day_result>>

\* granted: `yield env.timeout(downtime_minutes)`
MaintGranted(e) ==
    /\ Pop(e) /\ e.kind = "request" /\ pc[e.proc] = "dt_wait"
    /\ UNCHANGED downtime_start
    /\ pc' = [pc EXCEPT ![e.proc] = "dt_hold"]
    /\ queue' = (queue \ {e}) \cup {Timeout(e.time, downtime_minutes, eid, e.proc)}
    /\ eid' = eid + 1
    /\ UNCHANGED <<scanners, robots, time_when_ct_requested, time_when_robot_requested,
                   robot_time, collected_metrics, scanner_events, day_result, request_log, grant_log>>

\* leaving the with block releases the unit; the Release event is scheduled
MaintDone(e) ==
    /\ Pop(e) /\ e.kind = "timeout" /\ pc[e.proc] = "dt_hold"
    /\ scanners' = Release(scanners, e.proc)
    /\ queue' = (queue \ {e}) \cup {Ev(e.time, NORMAL, eid, "release", NoProc, "scanners")}
    /\ eid' = eid + 1
    /\ pc' = [pc EXCEPT ![e.proc] = "done"]
    /\ downtime_start' = [proc \in DOMAIN downtime_start \ {e.proc} |->
                              downtime_start[proc]]
    /\ UNCHANGED <<robots, time_when_ct_requested, time_when_robot_requested,
                   robot_time, collected_metrics, scanner_events, day_result, request_log, grant_log>>

----------------------------------------------------------------------------
(* simulate_one_patient *)

\* Initialize: run to `yield env.timeout(scheduled_time)`
PatientInitialize(e) ==
    /\ Pop(e) /\ e.kind = "init" /\ IsPatient(e.proc)
    /\ UNCHANGED downtime_start
    /\ pc' = [pc EXCEPT ![e.proc] = "scheduled"]
    /\ queue' = (queue \ {e}) \cup {Timeout(e.time, scheduled_time(e.proc), eid, e.proc)}
    /\ eid' = eid + 1
    /\ UNCHANGED <<scanners, robots, time_when_ct_requested, time_when_robot_requested,
                   robot_time, collected_metrics, scanner_events, day_result,
                   request_log, grant_log>>

manual_transport_Never == FALSE

(* `if scenario_name in ("baseline", "wf_only")` in simulate_one_patient *)
manual_transport == scenario_name \in {"baseline", "wf_only"}

\* STEP 2: manual transport as one delay, or step A before the robot request
PatientScheduled(e) ==
    /\ Pop(e) /\ e.kind = "timeout" /\ pc[e.proc] = "scheduled"
    /\ UNCHANGED downtime_start
    /\ IF manual_transport
       THEN \E transport_time \in calculate_patient_transport_time("baseline") :
            /\ pc' = [pc EXCEPT ![e.proc] = "transport"]
            /\ queue' = (queue \ {e}) \cup {Timeout(e.time, transport_time, eid, e.proc)}
       ELSE \E step_a_time \in get_step_duration("A", scenario_name) :
            /\ pc' = [pc EXCEPT ![e.proc] = "step_a"]
            /\ queue' = (queue \ {e}) \cup {Timeout(e.time, step_a_time, eid, e.proc)}
    /\ eid' = eid + 1
    /\ UNCHANGED <<scanners, robots, time_when_ct_requested, time_when_robot_requested,
                   robot_time, collected_metrics, scanner_events, day_result,
                   request_log, grant_log>>

\* `with robots.request() as robot_request: yield robot_request`
PatientRequestRobot(e) ==
    /\ Pop(e) /\ e.kind = "timeout" /\ pc[e.proc] = "step_a"
    /\ UNCHANGED downtime_start
    /\ time_when_robot_requested' = [time_when_robot_requested EXCEPT ![e.proc] = e.time]
    /\ LET r == Request(robots, RobotCapacity, e.proc)
       IN /\ robots' = r.res
          /\ queue' = (queue \ {e}) \cup GrantEvents(r.granted, "robots", e.time, eid)
          /\ eid' = eid + Len(r.granted)
          /\ grant_log' = GrantLog(r.granted, "robots")
    /\ request_log' = Append(request_log, <<"robots", e.proc>>)
    /\ pc' = [pc EXCEPT ![e.proc] = "robot_wait"]
    /\ UNCHANGED <<scanners, time_when_ct_requested, robot_time, collected_metrics,
                   scanner_events, day_result>>

\* robot granted: record the wait, draw the uptime outcome and the occupancy
PatientRobotGranted(e) ==
    /\ Pop(e) /\ e.kind = "request" /\ pc[e.proc] = "robot_wait"
    /\ UNCHANGED downtime_start
    /\ collected_metrics' =
          [collected_metrics EXCEPT
              !.robot_waits = Append(@, e.time - time_when_robot_requested[e.proc])]
    /\ \E robot_ok \in BOOLEAN :
       \E t \in (IF robot_ok THEN calculate_robot_time(scenario_name)
                 ELSE failed_robot_time) :
            /\ robot_time' = [robot_time EXCEPT ![e.proc] = t]
            /\ queue' = (queue \ {e}) \cup {Timeout(e.time, t, eid, e.proc)}
    /\ eid' = eid + 1
    /\ pc' = [pc EXCEPT ![e.proc] = "robot_use"]
    /\ UNCHANGED <<scanners, robots, time_when_ct_requested, time_when_robot_requested,
                   scanner_events, day_result, request_log, grant_log>>

\* occupancy over: add robot_busy, release the robot, then step C2
PatientRobotDone(e) ==
    /\ Pop(e) /\ e.kind = "timeout" /\ pc[e.proc] = "robot_use"
    /\ UNCHANGED downtime_start
    /\ collected_metrics' =
          [collected_metrics EXCEPT !.robot_busy = @ + robot_time[e.proc]]
    /\ robots' = Release(robots, e.proc)
    /\ \E step_c2_time \in get_step_duration("C2", scenario_name) :
          queue' = (queue \ {e})
                     \cup {Ev(e.time, NORMAL, eid, "release", NoProc, "robots"),
                           Timeout(e.time, step_c2_time, eid + 1, e.proc)}
    /\ eid' = eid + 2
    /\ pc' = [pc EXCEPT ![e.proc] = "c2"]
    /\ UNCHANGED <<scanners, time_when_ct_requested, time_when_robot_requested,
                   robot_time, scanner_events, day_result, request_log, grant_log>>

\* STEP 3: `with scanners.request() as scanner_request: yield scanner_request`
PatientRequestScanner(e) ==
    /\ Pop(e) /\ e.kind = "timeout" /\ pc[e.proc] \in {"transport", "c2"}
    /\ UNCHANGED downtime_start
    /\ time_when_ct_requested' = [time_when_ct_requested EXCEPT ![e.proc] = e.time]
    /\ LET r == Request(scanners, ScannerCapacity, e.proc)
       IN /\ scanners' = r.res
          /\ queue' = (queue \ {e}) \cup GrantEvents(r.granted, "scanners", e.time, eid)
          /\ eid' = eid + Len(r.granted)
          /\ grant_log' = GrantLog(r.granted, "scanners")
    /\ request_log' = Append(request_log, <<"scanners", e.proc>>)
    /\ pc' = [pc EXCEPT ![e.proc] = "ct_wait"]
    /\ UNCHANGED <<robots, time_when_robot_requested, robot_time, collected_metrics,
                   scanner_events, day_result>>

time_when_ct_starts_Countdown(e) == run_until - e.time

(* `time_when_ct_starts = env.now` at the resume after the grant *)
time_when_ct_starts(e) == e.time

\* scanner granted: record the wait, append the event, draw the exam (STEP 4)
PatientScannerGranted(e) ==
    /\ Pop(e) /\ e.kind = "request" /\ pc[e.proc] = "ct_wait"
    /\ UNCHANGED downtime_start
    /\ collected_metrics' =
          [collected_metrics EXCEPT
              !.ct_waits = Append(@, e.time - time_when_ct_requested[e.proc])]
    /\ \E exam_time \in generate_exam_duration :
          /\ scanner_events' =
                Append(scanner_events,
                       [patient_id |-> e.proc[2], sched |-> scheduled_time(e.proc),
                        start |-> time_when_ct_starts(e),
                        end |-> time_when_ct_starts(e) + total_scanner_time(exam_time)])
          /\ queue' = (queue \ {e})
                        \cup {Timeout(e.time, total_scanner_time(exam_time), eid, e.proc)}
    /\ eid' = eid + 1
    /\ pc' = [pc EXCEPT ![e.proc] = "scanning"]
    /\ UNCHANGED <<scanners, robots, time_when_ct_requested, time_when_robot_requested,
                   robot_time, day_result, request_log, grant_log>>

\* exam over: leaving the with block releases the scanner
PatientScanDone(e) ==
    /\ Pop(e) /\ e.kind = "timeout" /\ pc[e.proc] = "scanning"
    /\ UNCHANGED downtime_start
    /\ scanners' = Release(scanners, e.proc)
    /\ queue' = (queue \ {e}) \cup {Ev(e.time, NORMAL, eid, "release", NoProc, "scanners")}
    /\ eid' = eid + 1
    /\ pc' = [pc EXCEPT ![e.proc] = "done"]
    /\ UNCHANGED <<robots, time_when_ct_requested, time_when_robot_requested,
                   robot_time, collected_metrics, scanner_events, day_result,
                   request_log, grant_log>>

----------------------------------------------------------------------------
(* The kernel's own events *)

\* a Release event is processed: its callback triggers the pool's put_queue
ReleaseProcessed(e) ==
    /\ Pop(e) /\ e.kind = "release"
    /\ UNCHANGED downtime_start
    /\ LET r == IF e.pool = "scanners" THEN TriggerPut(scanners, ScannerCapacity)
                ELSE TriggerPut(robots, RobotCapacity)
       IN /\ scanners' = IF e.pool = "scanners" THEN r.res ELSE scanners
          /\ robots' = IF e.pool = "robots" THEN r.res ELSE robots
          /\ queue' = (queue \ {e}) \cup GrantEvents(r.granted, e.pool, e.time, eid)
          /\ eid' = eid + Len(r.granted)
          /\ grant_log' = GrantLog(r.granted, e.pool)
    /\ UNCHANGED <<pc, time_when_ct_requested, time_when_robot_requested, robot_time,
                   collected_metrics, scanner_events, day_result, request_log>>

\* env.run(until=DAY_LENGTH_MIN + 240) stops; the post-pass builds the result
RunUntil(e) ==
    /\ Pop(e) /\ e.kind = "until"
    /\ UNCHANGED downtime_start
    /\ day_result' = DayResult(scanner_events)
    /\ queue' = queue \ {e}
    /\ UNCHANGED <<eid, pc, scanners, robots, time_when_ct_requested,
                   time_when_robot_requested, robot_time, collected_metrics,
                   scanner_events, request_log, grant_log>>

Next ==
    \/ \E e \in queue : MaintInitialize(e)
    \/ \E e \in queue : MaintRequest(e)
    \/ \E e \in queue : MaintGranted(e)
    \/ \E e \in queue : MaintDone(e)
    \/ \E e \in queue : PatientInitialize(e)
    \/ \E e \in queue : PatientScheduled(e)
    \/ \E e \in queue : PatientRequestRobot(e)
    \/ \E e \in queue : PatientRobotGranted(e)
    \/ \E e \in queue : PatientRobotDone(e)
    \/ \E e \in queue : PatientRequestScanner(e)
    \/ \E e \in queue : PatientScannerGranted(e)
    \/ \E e \in queue : PatientScanDone(e)
    \/ \E e \in queue : ReleaseProcessed(e)
    \/ \E e \in queue : RunUntil(e)

Spec == Init /\ [][Next]_vars

----------------------------------------------------------------------------
(* Vocabulary of the claims *)

Done == day_result.done

PosIn(log, x) == CHOOSE i \in 1..Len(log) : log[i] = x
InLog(log, x) == \E i \in 1..Len(log) : log[i] = x
CountIn(log, x) == Cardinality({i \in 1..Len(log) : log[i] = x})

EventsOf(events, p) == {i \in 1..Len(events) : events[i].patient_id = p}

InSeq(s, x) == \E i \in 1..Len(s) : s[i] = x

ScannerHolders == {proc \in Procs : pc[proc] \in {"scanning", "dt_hold"}}
RobotHolders == {proc \in PatientProcs : pc[proc] = "robot_use"}

Overlap(a, b) == a.start < b.end /\ b.start < a.end

----------------------------------------------------------------------------
(* C1: at every moment of a simulated day at most NUM_SCANNERS processes    *)
(* (patient exams and maintenance windows) hold a scanner unit and at most  *)
(* NUM_ROBOTS patients hold a robot, and a step that grants a request of a  *)
(* pool starts from a state in which that pool has a free unit.             *)
C1_WithinCapacity ==
    /\ Len(scanners.users) <= NUM_SCANNERS
    /\ Len(robots.users) <= NUM_ROBOTS
    /\ Cardinality(ScannerHolders) <= NUM_SCANNERS
    /\ Cardinality(RobotHolders) <= NUM_ROBOTS
    /\ \A proc \in ScannerHolders : InSeq(scanners.users, proc)
    /\ \A proc \in RobotHolders : InSeq(robots.users, proc)
    /\ \A i, j \in 1..Len(scanners.users) : scanners.users[i] = scanners.users[j] => i = j

C1_GrantOnlyWhenFree ==
    grant_log' # grant_log =>
        LET g == grant_log'[Len(grant_log')]
        IN /\ g[1] = "scanners" => Len(scanners.users) < NUM_SCANNERS
           /\ g[1] = "robots" => Len(robots.users) < NUM_ROBOTS

C1_PoolsWithinCapacity ==
    C1_WithinCapacity /\ [][C1_WithinCapacity' /\ C1_GrantOnlyWhenFree]_vars

(* C1 witness: both scanner units are held, one by a maintenance window and *)
(* one by a patient's exam, while another patient waits in the queue.       *)
C1_Witness ==
    /\ NUM_SCANNERS = 2
    /\ Len(scanners.users) = 2
    /\ \E m \in MaintProcs, p \in PatientProcs :
          pc[m] = "dt_hold" /\ pc[p] = "scanning"
    /\ \E q \in PatientProcs : InSeq(scanners.put_queue, q)

----------------------------------------------------------------------------
(* C2: after the post-pass no two events given the same scanner index       *)
(* overlap in [start, end), and the scanner chosen for an event was free    *)
(* (next-free time <= the event's start) when the event was assigned.       *)
C2_NoOverlapPerScanner ==
    Done =>
        LET ev == day_result.scanner_events
        IN /\ \A i, j \in 1..Len(ev) :
                 (i # j /\ ev[i].scanner = ev[j].scanner) => ~Overlap(ev[i], ev[j])
           /\ \A i \in 1..Len(ev) : day_result.free_before[i] <= ev[i].start

(* C2 witness: a finished day with two scanners where a scanner index got   *)
(* two events and two events on different indexes overlap in time.          *)
C2_Witness ==
    /\ Done /\ NUM_SCANNERS = 2
    /\ LET ev == day_result.scanner_events
       IN /\ \E i, j \in 1..Len(ev) : i # j /\ ev[i].scanner = ev[j].scanner
          /\ \E i, j \in 1..Len(ev) :
                ev[i].scanner # ev[j].scanner /\ Overlap(ev[i], ev[j])

----------------------------------------------------------------------------
(* C3 as claimed: when the run has ended, every patient that issued a       *)
(* scanner request was granted a scanner exactly once and has exactly one   *)
(* scanner event with start <= end.                                         *)
C3_EveryRequestServed ==
    Done =>
        \A p \in patient_ids :
            InLog(request_log, <<"scanners", Patient(p)>>) =>
                /\ CountIn(grant_log, <<"scanners", Patient(p)>>) = 1
                /\ Cardinality(EventsOf(scanner_events, p)) = 1
                /\ \A i \in EventsOf(scanner_events, p) :
                      scanner_events[i].start <= scanner_events[i].end

(* C3 as amended: a patient is granted a scanner at most once; a granted    *)
(* patient has exactly one scanner event, with start <= end, and an         *)
(* ungranted one has none; a patient whose request is not yet granted stays *)
(* in the scanner queue (never dropped or timed out), also when the run     *)
(* stops at DAY_LENGTH_MIN + 240 with the patient still waiting.            *)
C3_ServedAtMostOnceNeverDropped ==
    \A p \in patient_ids :
        LET granted == CountIn(grant_log, <<"scanners", Patient(p)>>)
            requested == InLog(request_log, <<"scanners", Patient(p)>>)
        IN /\ granted <= 1
           /\ CountIn(request_log, <<"scanners", Patient(p)>>) <= 1
           /\ granted = 1 => requested
           /\ (requested /\ granted = 0) <=> InSeq(scanners.put_queue, Patient(p))
           /\ (granted = 1 /\ pc[Patient(p)] # "ct_wait")
                 <=> Cardinality(EventsOf(scanner_events, p)) = 1
           /\ (granted = 0 \/ pc[Patient(p)] = "ct_wait")
                 <=> EventsOf(scanner_events, p) = {}
           /\ \A i \in EventsOf(scanner_events, p) :
                 scanner_events[i].start <= scanner_events[i].end
           /\ (Done /\ granted = 1) => Cardinality(EventsOf(scanner_events, p)) = 1

(* C3 witness: the run has ended with one patient served after waiting for  *)
(* a scanner and another patient still waiting in the scanner queue.        *)
C3_Witness ==
    /\ Done
    /\ \E p \in patient_ids :
          /\ InSeq(scanners.put_queue, Patient(p))
          /\ EventsOf(scanner_events, p) = {}
    /\ \E i \in 1..Len(scanner_events) :
          scanner_events[i].start >
              time_when_ct_requested[Patient(scanner_events[i].patient_id)]

----------------------------------------------------------------------------
(* C4: the day's result counts every generated arrival in total_patients,   *)
(* no patient id occurs in two scanner events, and completed_scans is at    *)
(* most total_patients.                                                     *)
C4_ArrivalsCounted ==
    Done =>
        /\ day_result.total_patients = Len(arrival_times)
        /\ \A p \in patient_ids :
              Cardinality(EventsOf(day_result.scanner_events, p)) <= 1
        /\ \A i \in 1..Len(day_result.scanner_events) :
              day_result.scanner_events[i].patient_id \in patient_ids
        /\ day_result.completed_scans = Len(day_result.scanner_events)
        /\ day_result.completed_scans <= day_result.total_patients

(* C4 witness: a finished day on which some patient was scanned and another *)
(* arrival has no scanner event at the cutoff.                              *)
C4_Witness ==
    /\ Done
    /\ day_result.completed_scans >= 1
    /\ day_result.completed_scans < day_result.total_patients

----------------------------------------------------------------------------
(* C5: each pool serves its requests first come, first served: if request   *)
(* a was issued before request b on the same pool and b has been granted,   *)
(* then a was granted before b; and a step grants nobody but the request at *)
(* the head of the pool's queue, i.e. the longest-waiting one.              *)
C5_Fifo ==
    \A i, j \in 1..Len(request_log) :
        (i < j /\ request_log[i][1] = request_log[j][1]
               /\ InLog(grant_log, request_log[j]))
            => /\ InLog(grant_log, request_log[i])
               /\ PosIn(grant_log, request_log[i]) < PosIn(grant_log, request_log[j])

(* C5 witness: two patients were in the scanner queue at the same time, the *)
(* one with the larger patient id having requested first, and both have     *)
(* been granted a scanner after waiting.                                    *)
C5_Witness ==
    \E i, j \in 1..Len(request_log) :
        LET a == request_log[i]
            b == request_log[j]
        IN /\ i < j /\ a[1] = "scanners" /\ b[1] = "scanners"
           /\ IsPatient(a[2]) /\ IsPatient(b[2]) /\ a[2][2] > b[2][2]
           /\ InLog(grant_log, a) /\ InLog(grant_log, b)
           /\ \E k, l \in 1..Len(scanner_events) :
                 /\ scanner_events[k].patient_id = a[2][2]
                 /\ scanner_events[l].patient_id = b[2][2]
                 /\ scanner_events[k].start > time_when_ct_requested[a[2]]
                 /\ scanner_events[k].start > time_when_ct_requested[b[2]]
                 /\ scanner_events[l].start >= scanner_events[k].start

----------------------------------------------------------------------------
(* C6 as claimed: for a finished day every idle gap is non-negative and,    *)
(* for every scanner index, idle gaps + busy durations + trailing idle =    *)
(* DAY_LENGTH_MIN; summed: total_idle_time + all event durations =          *)
(* NUM_SCANNERS * DAY_LENGTH_MIN.                                           *)
C6_IdleConservation ==
    Done =>
        /\ \A k \in 1..NUM_SCANNERS : day_result.idle_gaps[k] >= 0
        /\ \A k \in 1..NUM_SCANNERS :
              day_result.idle_gaps[k] + day_result.busy_minutes[k]
                + TailIdle(day_result.scanner_free_times[k]) = DAY_LENGTH_MIN
        /\ day_result.total_idle_time
             + SumSeq([i \in 1..Len(day_result.scanner_events) |->
                          day_result.scanner_events[i].end
                            - day_result.scanner_events[i].start])
             = NUM_SCANNERS * DAY_LENGTH_MIN

----------------------------------------------------------------------------
(* C7 as claimed: the end-to-end scenario (baseline, 1 scanner, arrivals at *)
(* 0, 60 and 120, every exam 12 minutes, no transport delay) reports idle   *)
(* time 0 and 3 completed scans.                                            *)
EndToEndScenario ==
    /\ stub /\ scenario_name = "baseline" /\ NUM_SCANNERS = 1
    /\ arrival_times = <<0, 60, 120>>

C7_EndToEndIdleZero ==
    (Done /\ EndToEndScenario) =>
        /\ day_result.total_idle_time = 0
        /\ day_result.completed_scans = 3

(* C7 as amended: in that scenario the three exams run 0-12, 60-72 and      *)
(* 120-132, the reported idle time is DAY_LENGTH_MIN - 3 * 12 = 1404        *)
(* minutes (two 48-minute gaps and 1308 minutes after the last exam), and   *)
(* the completed-scan count is 3.                                           *)
C7_EndToEndIdle1404 ==
    (Done /\ EndToEndScenario) =>
        /\ day_result.total_idle_time = DAY_LENGTH_MIN - 3 * 12
        /\ day_result.total_idle_time = 1404
        /\ day_result.completed_scans = 3
        /\ \A i \in 1..3 :
              /\ day_result.scanner_events[i].start = arrival_times[i]
              /\ day_result.scanner_events[i].end = arrival_times[i] + 12

(* C7 witness: the end-to-end scenario has run to its result.               *)
C7_Witness == Done /\ EndToEndScenario /\ day_result.completed_scans = 3

----------------------------------------------------------------------------
(* generate_patient_arrivals_workflow_derived.  Quantities that are not     *)
(* whole numbers are exact rationals <<numerator, denominator>>; step means *)
(* are in hundredths of a minute.                                           *)

BOOKING_CONVERSION_PERCENT == 60
LOW_ACUITY_PERCENT == 100
AVG_SCAN_DURATION_X100 == 1211
HOURS_PER_DAY == 24

(* Bounds of the generator's inputs *)
MaxDailyHalves == 7
MaxArrivals == 2

(* Values passed as deterministic_daily_patients: 0, 0.5, 1, 1.5, ... and   *)
(* 400, more than three scanners can serve in a day.                        *)
DailyOverrides == {<<k, 2>> : k \in 0..MaxDailyHalves} \cup {<<800, 2>>}

(* Draws of random.expovariate: an inter-arrival time in minutes, >= 0      *)
ExpDraws == {0, 25, 60}

STEP_ORDER == <<"P", "A", "B1", "B2", "B3", "C1", "C2", "C3">>

GenScenarios ==
    IF variant = WIP THEN {"baseline", "rovis_only", "rovis_workflow", "wf_only"}
    ELSE {"baseline", "rovis_only", "rovis_workflow"}

(* NUM_SCANNERS as each file sets it *)
SourceNumScanners == IF variant = WIP THEN 3 ELSE 6

RECURSIVE Gcd(_, _)
Gcd(a, b) == IF b = 0 THEN a ELSE Gcd(b, a % b)

Norm(r) == IF r[1] = 0 THEN <<0, 1>>
           ELSE LET g == Gcd(r[1], r[2]) IN <<r[1] \div g, r[2] \div g>>

RLeq(a, b) == a[1] * b[2] <= b[1] * a[2]
RLess(a, b) == a[1] * b[2] < b[1] * a[2]
RMin(a, b) == IF RLeq(a, b) THEN a ELSE b

(* Python's round(): to the nearest, ties to the even neighbour *)
RoundHalfEven(n, d) ==
    LET q == n \div d
        r == n % d
    IN IF 2 * r < d THEN q
       ELSE IF 2 * r > d THEN q + 1
       ELSE IF q % 2 = 0 THEN q ELSE q + 1

(* get_theoretical_total: round(sum of the step means, 1), in hundredths    *)
get_theoretical_total_x100(column) ==
    10 * RoundHalfEven(SumSeq([i \in 1..Len(STEP_ORDER) |->
                                  StepMeansX100(STEP_ORDER[i], column)]), 10)

baseline_daily_capacity == IF variant = WIP THEN 150 ELSE 25

TransportTimeX100(column) ==
    get_theoretical_total_x100(column) - 2743 - 1211

(* baseline_daily_capacity * capacity_improvement *)
theoretical_improved_capacity(column) ==
    IF TransportTimeX100("baseline") > 0
    THEN <<baseline_daily_capacity * TransportTimeX100("baseline"),
           TransportTimeX100(column)>>
    ELSE <<baseline_daily_capacity, 1>>

BookingConverted_Unconverted(gain) == gain

BookingConverted(gain) == <<gain[1] * BOOKING_CONVERSION_PERCENT, gain[2] * 100>>

(* baseline + (theoretical - baseline) * BOOKING_CONVERSION *)
improved_daily_capacity(column) ==
    LET th == Norm(theoretical_improved_capacity(column))
        gain == BookingConverted(<<th[1] - baseline_daily_capacity * th[2], th[2]>>)
    IN Norm(<<baseline_daily_capacity * gain[2] + gain[1], gain[2]>>)

MAX_SCANNER_CAPACITY ==
    Norm(<<DAY_LENGTH_MIN * SourceNumScanners * 100, AVG_SCAN_DURATION_X100>>)

CappedCapacity(column) == RMin(improved_daily_capacity(column), MAX_SCANNER_CAPACITY)

(* lines 169-201: the daily demand the arrivals are generated from *)
DailyPatients(column, override) ==
    LET d == IF override # None THEN override
             ELSE IF column = "baseline" THEN <<baseline_daily_capacity, 1>>
             ELSE CappedCapacity(column)
    IN Norm(<<d[1] * LOW_ACUITY_PERCENT, d[2] * 100>>)

(* hour_fraction in 240ths: 0.70 / 12, 0.20 / 4, 0.10 / 8 *)
HourFraction240(h) ==
    IF 7 <= h /\ h < 19 THEN 14
    ELSE IF 19 <= h /\ h < 23 THEN 12
    ELSE 3

(* expected_arrivals = daily_patients * hour_fraction, over 240 * daily_patients[2] *)
ExpectedNum(h) == daily_patients[1] * HourFraction240(h)
ExpectedDen == 240 * daily_patients[2]

(* int(expected_arrivals + carry) *)
HourCount(h) == (ExpectedNum(h) + carry) \div ExpectedDen

(* the arrivals of a deterministic hour: hour_start + spacing * (i + 1) *)
EvenlySpaced(h, count) ==
    [i \in 1..count |-> <<h * 60 * (count + 1) + 60 * i, count + 1>>]

WithinHour_Inclusive(t, h) == t <= (h + 1) * 60

(* line 236: current_time < hour_end_min *)
WithinHour(t, h) == t < (h + 1) * 60

(* Inputs of one call: stochastic calls take no override or one of the two  *)
(* extreme overrides, deterministic calls any override.                     *)
OverridesFor(det) ==
    IF det THEN {None} \cup DailyOverrides
    ELSE {None, <<0, 2>>, <<MaxDailyHalves, 2>>}

GenInit ==
    /\ variant \in {WIP, CURRENT}
    /\ stub = FALSE
    /\ long_prep = FALSE
    /\ scenario_name \in GenScenarios
    /\ NUM_SCANNERS = SourceNumScanners
    /\ NUM_ROBOTS = 1
    /\ arrival_times = <<>>
    /\ now = 0
    /\ queue = {}
    /\ eid = 0
    /\ pc = <<>>
    /\ scanners = EmptyPool
    /\ robots = EmptyPool
    /\ time_when_ct_requested = <<>>
    /\ time_when_robot_requested = <<>>
    /\ robot_time = <<>>
    /\ downtime_start = <<>>
    /\ collected_metrics = [robot_waits |-> <<>>, ct_waits |-> <<>>, robot_busy |-> 0]
    /\ scanner_events = <<>>
    /\ day_result = NoResult
    /\ request_log = <<>>
    /\ grant_log = <<>>
    /\ gen_pc = "daily"
    /\ deterministic \in BOOLEAN
    /\ deterministic_daily_patients \in OverridesFor(deterministic)
    /\ daily_patients = <<0, 1>>
    /\ hour = 0
    /\ carry = 0
    /\ current_time = 0
    /\ arrival_list = <<>>
    /\ crossing_draws = 0
    /\ AuxIdle

\* lines 165-206: determine daily_patients, start the hour loop
GenDailyPatients ==
    /\ gen_pc = "daily"
    /\ daily_patients' = DailyPatients(scenario_name, deterministic_daily_patients)
    /\ gen_pc' = "hours"
    /\ UNCHANGED <<deterministic, deterministic_daily_patients, hour, carry,
                   current_time, arrival_list, crossing_draws>>
    /\ UNCHANGED desVars
    /\ UNCHANGED auxVars

\* lines 219-226: one hour in deterministic mode
GenDeterministicHour ==
    /\ gen_pc = "hours" /\ hour < HOURS_PER_DAY /\ deterministic
    /\ LET count == HourCount(hour)
       IN /\ carry' = (ExpectedNum(hour) + carry) - count * ExpectedDen
          /\ arrival_list' = IF count > 0
                             THEN arrival_list \o EvenlySpaced(hour, count)
                             ELSE arrival_list
    /\ hour' = hour + 1
    /\ current_time' = (hour + 1) * 60
    /\ UNCHANGED <<gen_pc, deterministic, deterministic_daily_patients, daily_patients,
                   crossing_draws>>
    /\ UNCHANGED desVars
    /\ UNCHANGED auxVars

\* lines 230-237: one pass of the while loop, one inter-arrival draw
GenStochasticDraw ==
    /\ gen_pc = "hours" /\ hour < HOURS_PER_DAY /\ ~deterministic
    /\ current_time < (hour + 1) * 60 /\ ExpectedNum(hour) > 0
    /\ \E inter_arrival_time \in ExpDraws :
          /\ Len(arrival_list) < MaxArrivals
                \/ current_time + inter_arrival_time >= (hour + 1) * 60
          /\ current_time' = current_time + inter_arrival_time
          /\ IF WithinHour(current_time + inter_arrival_time, hour)
             THEN /\ arrival_list' =
                        Append(arrival_list, <<current_time + inter_arrival_time, 1>>)
                  /\ UNCHANGED crossing_draws
             ELSE /\ UNCHANGED arrival_list
                  /\ crossing_draws' = crossing_draws + 1
    /\ UNCHANGED <<gen_pc, deterministic, deterministic_daily_patients, daily_patients,
                   hour, carry>>
    /\ UNCHANGED desVars
    /\ UNCHANGED auxVars

\* the while condition is false: on to the next hour (current_time = hour_start_min)
GenStochasticHourEnd ==
    /\ gen_pc = "hours" /\ hour < HOURS_PER_DAY /\ ~deterministic
    /\ ~(current_time < (hour + 1) * 60 /\ ExpectedNum(hour) > 0)
    /\ hour' = hour + 1
    /\ current_time' = (hour + 1) * 60
    /\ UNCHANGED <<gen_pc, deterministic, deterministic_daily_patients, daily_patients,
                   carry, arrival_list, crossing_draws>>
    /\ UNCHANGED desVars
    /\ UNCHANGED auxVars

\* line 241: return arrival_times
GenReturn ==
    /\ gen_pc = "hours" /\ hour = HOURS_PER_DAY
    /\ gen_pc' = "returned"
    /\ UNCHANGED <<deterministic, deterministic_daily_patients, daily_patients, hour,
                   carry, current_time, arrival_list, crossing_draws>>
    /\ UNCHANGED desVars
    /\ UNCHANGED auxVars

GenNext ==
    \/ GenDailyPatients
    \/ GenDeterministicHour
    \/ GenStochasticDraw
    \/ GenStochasticHourEnd
    \/ GenReturn

SpecArrivals == GenInit /\ [][GenNext]_vars

----------------------------------------------------------------------------
(* Vocabulary of the generator's claims *)

Returned == gen_pc = "returned"

REq(a, b) == a[1] * b[2] = b[1] * a[2]

InHour(t, h) == 60 * h * t[2] <= t[1] /\ t[1] < 60 * (h + 1) * t[2]

----------------------------------------------------------------------------
(* C8 as claimed: in deterministic mode the number of arrival timestamps    *)
(* generated over the 24 hours equals round(daily_patients), for whole and  *)
(* for fractional daily_patients.                                           *)
C8_DeterministicCountIsRound ==
    (Returned /\ deterministic) =>
        Len(arrival_list) = RoundHalfEven(daily_patients[1], daily_patients[2])

----------------------------------------------------------------------------
(* C9: in both modes the arrival list is in nondecreasing order with every  *)
(* timestamp in [0, 1440); the arrivals a step appends for hour h lie in    *)
(* [60h, 60(h+1)), and a draw that takes current_time to or past the hour's *)
(* end appends nothing.                                                     *)
C9_SortedInDay ==
    /\ \A i \in 1..(Len(arrival_list) - 1) : RLeq(arrival_list[i], arrival_list[i + 1])
    /\ \A i \in 1..Len(arrival_list) :
          /\ 0 <= arrival_list[i][1]
          /\ RLess(arrival_list[i], <<DAY_LENGTH_MIN, 1>>)

C9_AppendedInHour ==
    /\ Len(arrival_list') >= Len(arrival_list)
    /\ SubSeq(arrival_list', 1, Len(arrival_list)) = arrival_list
    /\ \A i \in (Len(arrival_list) + 1)..Len(arrival_list') :
          InHour(arrival_list'[i], hour)
    /\ (~deterministic /\ current_time' >= (hour + 1) * 60 /\ hour' = hour)
          => arrival_list' = arrival_list

C9_ArrivalsSortedInRange ==
    C9_SortedInDay /\ [][C9_SortedInDay' /\ C9_AppendedInHour]_vars

(* C9 witness: a stochastic call has returned two arrivals, the second no   *)
(* earlier than the first, after at least one draw crossed an hour's end.   *)
C9_Witness ==
    /\ Returned /\ ~deterministic
    /\ Len(arrival_list) >= 2
    /\ crossing_draws >= 1

----------------------------------------------------------------------------
(* C10 as claimed: for a non-baseline scenario daily_patients equals        *)
(* min(baseline + (theoretical_improved - baseline) * BOOKING_CONVERSION,   *)
(* DAY_LENGTH_MIN * NUM_SCANNERS / AVG_SCAN_DURATION), hence is at most     *)
(* that capacity; for the baseline scenario it is the baseline constant.    *)
PhysicalCapacity == Norm(<<DAY_LENGTH_MIN * NUM_SCANNERS * 100, 1211>>)

ConvertedDemand(column) ==
    LET th == Norm(theoretical_improved_capacity(column))
        base == baseline_daily_capacity
    IN Norm(<<base * th[2] * 100 + (th[1] - base * th[2]) * 60, th[2] * 100>>)

DemandAsDerived ==
    IF scenario_name = "baseline"
    THEN REq(daily_patients, <<baseline_daily_capacity, 1>>)
    ELSE /\ REq(daily_patients, RMin(ConvertedDemand(scenario_name), PhysicalCapacity))
         /\ RLeq(daily_patients, PhysicalCapacity)

C10_DemandDerivedAndCapped == gen_pc # "daily" => DemandAsDerived

(* C10 as amended: that holds when the caller passes no                     *)
(* deterministic_daily_patients; a passed value is used as the daily demand *)
(* as it is, in every scenario, without the capacity cap.                   *)
C10_DemandDerivedUnlessOverridden ==
    gen_pc # "daily" =>
        IF deterministic_daily_patients = None
        THEN DemandAsDerived
        ELSE REq(daily_patients, deterministic_daily_patients)

(* C10 witness: a call for an improvement scenario without an override has  *)
(* returned arrivals generated from the derived demand.                     *)
C10_Witness ==
    /\ Returned /\ scenario_name # "baseline"
    /\ deterministic_daily_patients = None
    /\ RLess(<<baseline_daily_capacity, 1>>, daily_patients)
    /\ Len(arrival_list) > 0

----------------------------------------------------------------------------
(* C12 as claimed: completed_scans and the returned scanner_events count    *)
(* only scans that completed during the run: every counted event has        *)
(* end <= DAY_LENGTH_MIN + 240 and belongs to a patient whose scanner hold  *)
(* finished; a scan still in progress at the cutoff is not counted.         *)
C12_OnlyFinishedScansCounted ==
    Done =>
        /\ day_result.completed_scans = Len(day_result.scanner_events)
        /\ \A i \in 1..Len(day_result.scanner_events) :
              /\ day_result.scanner_events[i].end <= run_until
              /\ pc[Patient(day_result.scanner_events[i].patient_id)] = "done"

----------------------------------------------------------------------------
(* A busy day: patients that reach the scanner just before a downtime       *)
(* process asks for it, and patients whose scanner prep differs in length.  *)

MaxBusyPatients == 2

(* Arrival timestamps of the busy day: minutes in [0, DAY_LENGTH_MIN).      *)
BusyTimes == {0, 1280}

InitBusyDay ==
    /\ stub = FALSE
    /\ long_prep = TRUE
    /\ variant = WIP
    /\ scenario_name \in Scenarios
    /\ NUM_SCANNERS \in ScannerCounts
    /\ NUM_ROBOTS \in RobotCounts
    /\ arrival_times \in SortedSeqs(BusyTimes, MaxBusyPatients)
    /\ now = 0
    /\ queue = InitQueue
    /\ eid = Cardinality(InitQueue)
    /\ pc = [proc \in Procs |-> "init"]
    /\ scanners = EmptyPool
    /\ robots = EmptyPool
    /\ time_when_ct_requested = [proc \in PatientProcs |-> 0]
    /\ time_when_robot_requested = [proc \in PatientProcs |-> 0]
    /\ robot_time = [proc \in PatientProcs |-> 0]
    /\ downtime_start = <<>>
    /\ collected_metrics = [robot_waits |-> <<>>, ct_waits |-> <<>>, robot_busy |-> 0]
    /\ scanner_events = <<>>
    /\ day_result = NoResult
    /\ request_log = <<>>
    /\ grant_log = <<>>
    /\ GenIdle
    /\ AuxIdle

SpecBusyDay == InitBusyDay /\ [][Next]_vars

----------------------------------------------------------------------------
(* C11 as claimed: each maintenance process draws its start in              *)
(* [0, DAY_LENGTH_MIN - downtime], holds exactly one scanner unit, and its  *)
(* downtime window begins at the drawn start and lasts downtime_minutes, so *)
(* the window ends by DAY_LENGTH_MIN.                                       *)
C11_WindowBegins(m) ==
    (pc[m] = "dt_wait" /\ pc'[m] = "dt_hold") =>
        /\ 0 <= downtime_start[m]
        /\ downtime_start[m] <= DAY_LENGTH_MIN - downtime_minutes
        /\ now' = downtime_start[m]
        /\ now' + downtime_minutes <= DAY_LENGTH_MIN
        /\ CountIn(scanners.users, m) = 1

C11_WindowEnds(m) ==
    (pc[m] = "dt_hold" /\ pc'[m] = "done") =>
        /\ now' = downtime_start[m] + downtime_minutes
        /\ now' <= DAY_LENGTH_MIN

C11_DowntimeWindowInDay ==
    [][\A m \in MaintProcs : C11_WindowBegins(m) /\ C11_WindowEnds(m)]_vars

----------------------------------------------------------------------------
(* C20: requests issued to the same pool at the same simulated time are     *)
(* granted in the order they were issued, whatever the patient ids: of two  *)
(* such requests the later-issued one is granted only after the earlier.    *)
Requester(r) == r[2]

(* the time a request was issued, while the requester's frame is alive *)
HasRequestTime(r) == IsPatient(Requester(r)) \/ Requester(r) \in DOMAIN downtime_start

RequestTime(r) ==
    IF ~IsPatient(Requester(r)) THEN downtime_start[Requester(r)]
    ELSE IF r[1] = "scanners" THEN time_when_ct_requested[Requester(r)]
    ELSE time_when_robot_requested[Requester(r)]

SameTimeRequests(i, j) ==
    /\ i < j
    /\ request_log[i][1] = request_log[j][1]
    /\ HasRequestTime(request_log[i]) /\ HasRequestTime(request_log[j])
    /\ RequestTime(request_log[i]) = RequestTime(request_log[j])

C20_SameTimeInRequestOrder ==
    \A i, j \in 1..Len(request_log) :
        (SameTimeRequests(i, j) /\ InLog(grant_log, request_log[j])) =>
            /\ InLog(grant_log, request_log[i])
            /\ PosIn(grant_log, request_log[i]) < PosIn(grant_log, request_log[j])

(* C20 witness: two patients asked for a scanner at the same minute, the    *)
(* one with the larger id first, and that one was scanned first while the   *)
(* other waited.                                                            *)
C20_Witness ==
    \E i, j \in 1..Len(request_log) :
        /\ SameTimeRequests(i, j)
        /\ request_log[i][1] = "scanners"
        /\ IsPatient(request_log[i][2]) /\ IsPatient(request_log[j][2])
        /\ request_log[i][2][2] > request_log[j][2][2]
        /\ \E k, l \in 1..Len(scanner_events) :
              /\ scanner_events[k].patient_id = request_log[i][2][2]
              /\ scanner_events[l].patient_id = request_log[j][2][2]
              /\ scanner_events[k].start < scanner_events[l].start
              /\ scanner_events[l].start > time_when_ct_requested[request_log[j][2]]

----------------------------------------------------------------------------
(* The duration samplers on their own: generate_exam_duration,              *)
(* generate_robot_repositioning_time and generate_random_time_with_average, *)
(* each called up to MaxSamples times.  One step of a bounded sampler is    *)
(* one pass of its `while True` loop.                                       *)

MaxSamples == 2

(* Draws of random.gauss(12, 3) and random.gauss(10.0, 2.0): the mean, both *)
(* bounds, and a value just outside each bound.                             *)
SampledGauss(fn) ==
    IF fn = "generate_exam_duration" THEN {4, 5, 12, 25, 26} ELSE {4, 5, 10, 15, 16}

ExamInBounds_Unreachable(duration) == 25 <= duration /\ duration <= 5

ExamInBounds_NoUpperBound(duration) == 5 <= duration

(* `if 5 <= duration <= 25` *)
ExamInBounds(duration) == 5 <= duration /\ duration <= 25

(* `if 5.0 <= reposition_time <= 15.0` *)
RepositionInBounds(reposition_time) == 5 <= reposition_time /\ reposition_time <= 15

(* Arguments of generate_random_time_with_average: math.log(average_time)   *)
(* in 1/20000 (the logarithms of 0.85, 1 and 51.67) and the variability in  *)
(* hundredths.                                                              *)
LogMeans == {-3250, 0, 78898}
Variabilities == {0, 15, 30, 40}

(* Draws of the standard normal deviate behind random.lognormvariate        *)
NormalDraws == {-2, 0, 2}

Location_Uncorrected(log_mean, variability) == log_mean

(* mu = math.log(average_time) - 0.5 * variability**2, in 1/20000           *)
Location(log_mean, variability) == log_mean - variability * variability

(* random.lognormvariate(mu, sigma) = exp(mu + sigma * z): the value is     *)
(* kept as the exponent it is the exponential of, in 1/20000.               *)
LogNormVariate(mu, sigma, z) == [exp_of |-> mu + 200 * sigma * z]

(* The logarithm of the mean of a log-normal(mu, sigma): mu + sigma**2 / 2  *)
LogExpectedValue(mu, sigma) == mu + sigma * sigma

Returns(value) ==
    /\ samples' = Append(samples, [fn |-> sampling.fn, args |-> sampling.args,
                                   value |-> value, redrawn |-> sampling.redrawn])
    /\ sampling' = NotSampling

Redraws ==
    /\ sampling' = [sampling EXCEPT !.redrawn = TRUE]
    /\ UNCHANGED samples

InitSamplers ==
    /\ variant = WIP
    /\ stub = FALSE
    /\ long_prep = FALSE
    /\ scenario_name = "baseline"
    /\ NUM_SCANNERS = SourceNumScanners
    /\ NUM_ROBOTS = 1
    /\ arrival_times = <<>>
    /\ now = 0
    /\ queue = {}
    /\ eid = 0
    /\ pc = <<>>
    /\ scanners = EmptyPool
    /\ robots = EmptyPool
    /\ time_when_ct_requested = <<>>
    /\ time_when_robot_requested = <<>>
    /\ robot_time = <<>>
    /\ downtime_start = <<>>
    /\ collected_metrics = [robot_waits |-> <<>>, ct_waits |-> <<>>, robot_busy |-> 0]
    /\ scanner_events = <<>>
    /\ day_result = NoResult
    /\ request_log = <<>>
    /\ grant_log = <<>>
    /\ GenIdle
    /\ sampling = NotSampling
    /\ samples = <<>>
    /\ ManyIdle
    /\ SeedIdle
    /\ FaultIdle
    /\ LaterIdle

\* a caller enters one of the samplers
SamplerCall ==
    /\ sampling = NotSampling
    /\ Len(samples) < MaxSamples
    /\ \/ \E fn \in {"generate_exam_duration", "generate_robot_repositioning_time"} :
             sampling' = [fn |-> fn, args |-> <<>>, redrawn |-> FALSE]
       \/ \E log_mean \in LogMeans, variability \in Variabilities :
             sampling' = [fn |-> "generate_random_time_with_average",
                          args |-> <<log_mean, variability>>, redrawn |-> FALSE]
    /\ UNCHANGED samples
    /\ UNCHANGED <<desVars, genVars, manyVars, seedVars, faultVars, laterVars>>

\* generate_exam_duration: draw, return the draw if it is in bounds, else loop
ExamDraw ==
    /\ sampling.fn = "generate_exam_duration"
    /\ \E duration \in SampledGauss(sampling.fn) :
          IF ExamInBounds(duration) THEN Returns(duration) ELSE Redraws
    /\ UNCHANGED <<desVars, genVars, manyVars, seedVars, faultVars, laterVars>>

\* generate_robot_repositioning_time: the same loop with its own bounds
RepositionDraw ==
    /\ sampling.fn = "generate_robot_repositioning_time"
    /\ \E reposition_time \in SampledGauss(sampling.fn) :
          IF RepositionInBounds(reposition_time) THEN Returns(reposition_time)
          ELSE Redraws
    /\ UNCHANGED <<desVars, genVars, manyVars, seedVars, faultVars, laterVars>>

\* generate_random_time_with_average: compute mu, return one log-normal draw
LogNormalDraw ==
    /\ sampling.fn = "generate_random_time_with_average"
    /\ LET mu == Location(sampling.args[1], sampling.args[2])
       IN \E z \in NormalDraws :
             /\ samples' = Append(samples,
                                  [fn |-> sampling.fn, args |-> sampling.args,
                                   mu |-> mu,
                                   value |-> LogNormVariate(mu, sampling.args[2], z),
                                   redrawn |-> FALSE])
             /\ sampling' = NotSampling
    /\ UNCHANGED <<desVars, genVars, manyVars, seedVars, faultVars, laterVars>>

NextSamplers ==
    \/ SamplerCall
    \/ ExamDraw
    \/ RepositionDraw
    \/ LogNormalDraw

SpecSamplers == InitSamplers /\ [][NextSamplers]_vars

(* Each pass of a sampler's loop accepts its draw with a fixed positive     *)
(* probability, so an accepted draw that stays possible is eventually made. *)
SpecSamplersFair ==
    /\ SpecSamplers
    /\ WF_vars(NextSamplers)
    /\ SF_vars(ExamDraw /\ sampling' = NotSampling)
    /\ SF_vars(RepositionDraw /\ sampling' = NotSampling)

SamplesOf(fn) == {i \in 1..Len(samples) : samples[i].fn = fn}

----------------------------------------------------------------------------
(* C13: every value returned by generate_exam_duration lies in [5, 25] and  *)
(* every value returned by generate_robot_repositioning_time in [5, 15],    *)
(* bounds included; a draw outside the bounds is redrawn, never returned.   *)
C13_ReturnedInBounds ==
    /\ \A i \in SamplesOf("generate_exam_duration") :
          5 <= samples[i].value /\ samples[i].value <= 25
    /\ \A i \in SamplesOf("generate_robot_repositioning_time") :
          5 <= samples[i].value /\ samples[i].value <= 15

(* C13 witness: the exam sampler returned its upper bound and the           *)
(* repositioning sampler its lower bound, each after discarding a draw.     *)
C13_Witness ==
    /\ \E i \in SamplesOf("generate_exam_duration") :
          samples[i].value = 25 /\ samples[i].redrawn
    /\ \E i \in SamplesOf("generate_robot_repositioning_time") :
          samples[i].value = 5 /\ samples[i].redrawn

----------------------------------------------------------------------------
(* C14: a call of a bounded sampler does not loop forever: it returns a     *)
(* value inside its bounds.                                                 *)
C14_SamplerReturns ==
    \A fn \in {"generate_exam_duration", "generate_robot_repositioning_time"} :
        (sampling.fn = fn) ~> (sampling = NotSampling)

(* C14 witness: two calls have returned, the second after a discarded draw. *)
C14_Witness ==
    /\ Len(samples) = 2
    /\ samples[2].fn \in {"generate_exam_duration", "generate_robot_repositioning_time"}
    /\ samples[2].redrawn
    /\ sampling = NotSampling

----------------------------------------------------------------------------
(* C19: generate_random_time_with_average draws from the log-normal with    *)
(* location ln(mean) - 0.5 * sigma^2 and scale sigma, for every mean > 0    *)
(* and sigma >= 0; the logarithm of that distribution's mean is ln(mean),   *)
(* so the expected draw is the supplied mean, and every draw is an          *)
(* exponential, hence strictly positive.                                    *)
C19_MeanPreserving ==
    \A i \in SamplesOf("generate_random_time_with_average") :
        LET log_mean == samples[i].args[1]
            sigma == samples[i].args[2]
        IN /\ 2 * samples[i].mu = 2 * log_mean - 2 * sigma * sigma
           /\ LogExpectedValue(samples[i].mu, sigma) = log_mean
           /\ DOMAIN samples[i].value = {"exp_of"}
           /\ sigma = 0 => samples[i].value.exp_of = log_mean

(* C19 witness: a draw below the mean was returned for a mean below 1 with  *)
(* positive variability.                                                    *)
C19_Witness ==
    \E i \in SamplesOf("generate_random_time_with_average") :
        /\ samples[i].args[1] < 0
        /\ samples[i].args[2] > 0
        /\ samples[i].value.exp_of < samples[i].mu

----------------------------------------------------------------------------
(* run_many_simulations: simulate_one_day called N_SIM_DAYS times, its      *)
(* results collected in the all_* lists and averaged.  Averages are exact   *)
(* rationals <<numerator, denominator>>.                                    *)

(* Days per run in the model (the sources run 100)                          *)
N_SIM_DAYS == 2

(* The arrival lists a day of the run is simulated from: no patient, or one *)
(* who reaches the scanner late enough to hold it at the run cutoff.        *)
ManyDayArrivals == {<<>>, <<1435>>}

RAdd(a, b) == Norm(<<a[1] * b[2] + b[1] * a[2], a[2] * b[2]>>)

RECURSIVE RSum(_)
RSum(s) == IF s = <<>> THEN <<0, 1>> ELSE RAdd(Head(s), RSum(Tail(s)))

(* statistics.mean of a list of numbers, and of a list of rationals         *)
Mean(s) == Norm(<<SumSeq(s), Len(s)>>)
RMean(s) == LET t == RSum(s) IN Norm(<<t[1], t[2] * Len(s)>>)

(* 'idle_per_scanner': total_idle_time / NUM_SCANNERS *)
average_idle_per_scanner(res) == Norm(<<res.total_idle_time, NUM_SCANNERS>>)

(* 'avg_scanner_util': the mean over the scanners of busy / available * 100 *)
avg_scanner_util(res) ==
    LET available_time_per_scanner == Max2(0, DAY_LENGTH_MIN - downtime_minutes)
    IN IF available_time_per_scanner > 0
       THEN Norm(<<SumSeq(res.busy_minutes) * 100,
                   available_time_per_scanner * NUM_SCANNERS>>)
       ELSE <<0, 1>>

(* the loop body after simulate_one_day has returned `res` *)
ExtendAll(res) ==
    [robot_waits |-> all_results.robot_waits \o res.robot_waits,
     ct_waits |-> all_results.ct_waits \o res.ct_waits,
     idle_times |-> Append(all_results.idle_times, average_idle_per_scanner(res)),
     total_patients |-> Append(all_results.total_patients, res.total_patients),
     completed_scans |-> Append(all_results.completed_scans, res.completed_scans),
     scanner_utils |-> Append(all_results.scanner_utils, avg_scanner_util(res)),
     robot_busy |-> Append(all_results.robot_busy, res.robot_busy_minutes)]

scenario_has_robots == scenario_name \in {"rovis_only", "rovis_workflow"}

robot_available == IF scenario_has_robots THEN DAY_LENGTH_MIN * NUM_ROBOTS ELSE 0

(* the averages run_many_simulations returns *)
Averages(all) ==
    LET avg_robot_busy == IF all.robot_busy # <<>> THEN Mean(all.robot_busy) ELSE <<0, 1>>
    IN [done |-> TRUE,
        avg_robot_wait |-> IF all.robot_waits # <<>> THEN Mean(all.robot_waits) ELSE <<0, 1>>,
        avg_ct_wait |-> IF all.ct_waits # <<>> THEN Mean(all.ct_waits) ELSE <<0, 1>>,
        avg_idle |-> RMean(all.idle_times),
        avg_total_patients |-> Mean(all.total_patients),
        avg_completed_scans |-> Mean(all.completed_scans),
        avg_scanner_util |-> IF all.scanner_utils # <<>> THEN RMean(all.scanner_utils)
                             ELSE <<0, 1>>,
        avg_robot_util |-> IF robot_available > 0
                           THEN Norm(<<avg_robot_busy[1] * 100,
                                       avg_robot_busy[2] * robot_available>>)
                           ELSE <<0, 1>>]

FreshScannerEvents_Kept == scanner_events

(* `scanner_events = []` in simulate_one_day *)
FreshScannerEvents == <<>>

FreshPool_Kept(res) == res

(* `simpy.Resource(env, capacity=...)`: a new pool *)
FreshPool(res) == EmptyPool

(* simulate_one_day's setup for the next day: a new Environment, new pools, *)
(* new metric and event lists, new processes for the day's arrivals.        *)
StartDay ==
    /\ arrival_times' \in ManyDayArrivals
    /\ UNCHANGED <<variant, stub, long_prep, scenario_name, NUM_SCANNERS, NUM_ROBOTS>>
    /\ now' = 0
    /\ queue' = InitQueue'
    /\ eid' = Cardinality(InitQueue')
    /\ pc' = [proc \in Procs' |-> "init"]
    /\ scanners' = FreshPool(scanners)
    /\ robots' = FreshPool(robots)
    /\ time_when_ct_requested' = [proc \in PatientProcs' |-> 0]
    /\ time_when_robot_requested' = [proc \in PatientProcs' |-> 0]
    /\ robot_time' = [proc \in PatientProcs' |-> 0]
    /\ downtime_start' = <<>>
    /\ collected_metrics' = [robot_waits |-> <<>>, ct_waits |-> <<>>, robot_busy |-> 0]
    /\ scanner_events' = FreshScannerEvents
    /\ day_result' = NoResult
    /\ request_log' = <<>>
    /\ grant_log' = <<>>

InitManyDays ==
    /\ stub = FALSE
    /\ long_prep = FALSE
    /\ variant = WIP
    /\ scenario_name \in Scenarios
    /\ NUM_SCANNERS = 1
    /\ NUM_ROBOTS = 1
    /\ arrival_times \in ManyDayArrivals
    /\ now = 0
    /\ queue = InitQueue
    /\ eid = Cardinality(InitQueue)
    /\ pc = [proc \in Procs |-> "init"]
    /\ scanners = EmptyPool
    /\ robots = EmptyPool
    /\ time_when_ct_requested = [proc \in PatientProcs |-> 0]
    /\ time_when_robot_requested = [proc \in PatientProcs |-> 0]
    /\ robot_time = [proc \in PatientProcs |-> 0]
    /\ downtime_start = <<>>
    /\ collected_metrics = [robot_waits |-> <<>>, ct_waits |-> <<>>, robot_busy |-> 0]
    /\ scanner_events = <<>>
    /\ day_result = NoResult
    /\ request_log = <<>>
    /\ grant_log = <<>>
    /\ GenIdle
    /\ AuxIdle

\* the day's result is collected and the next day is set up
NextDay ==
    /\ Done /\ run_result = NoResult
    /\ day_num + 1 < N_SIM_DAYS
    /\ all_results' = ExtendAll(day_result)
    /\ day_num' = day_num + 1
    /\ StartDay
    /\ UNCHANGED <<run_result, genVars, samplerVars, seedVars, faultVars, laterVars>>

\* the last day's result is collected and the averages are returned
LastDay ==
    /\ Done /\ run_result = NoResult
    /\ day_num + 1 = N_SIM_DAYS
    /\ all_results' = ExtendAll(day_result)
    /\ run_result' = Averages(all_results')
    /\ UNCHANGED <<day_num, desVars, genVars, samplerVars, seedVars, faultVars, laterVars>>

NextManyDays ==
    \/ Next
    \/ NextDay
    \/ LastDay

SpecManyDays == InitManyDays /\ [][NextManyDays]_vars

(* The day's processes are today's: every process that holds or awaits a    *)
(* unit, has an event scheduled or has a scanner event is one of Procs, and *)
(* a scanner event carries its patient's arrival time of today.             *)
TodayOnly ==
    /\ \A i \in 1..Len(scanners.users) : scanners.users[i] \in Procs
    /\ \A i \in 1..Len(scanners.put_queue) : scanners.put_queue[i] \in Procs
    /\ \A i \in 1..Len(robots.users) : robots.users[i] \in PatientProcs
    /\ \A e \in queue : e.proc \in Procs \cup {NoProc}
    /\ \A i \in 1..Len(scanner_events) :
          /\ scanner_events[i].patient_id \in patient_ids
          /\ scanner_events[i].sched = arrival_times[scanner_events[i].patient_id + 1]
    /\ Len(collected_metrics.ct_waits) = Len(scanner_events)

DayStartsFresh ==
    /\ now = 0
    /\ scanners = EmptyPool /\ robots = EmptyPool
    /\ collected_metrics.robot_waits = <<>> /\ collected_metrics.ct_waits = <<>>
    /\ scanner_events = <<>>
    /\ \A proc \in Procs : pc[proc] = "init"
    /\ ~Done

----------------------------------------------------------------------------
(* C17: every call of simulate_one_day in run_many_simulations starts at    *)
(* simulated time 0 with pools without holders or waiters and with empty    *)
(* wait-time and scanner-event lists, and nothing of an earlier day (a      *)
(* patient, a holder, an event) is present in a later one.                  *)
C17_NoCrossDayState ==
    /\ DayStartsFresh /\ TodayOnly
    /\ [][TodayOnly' /\ (day_num' # day_num => DayStartsFresh')]_vars

(* C17 witness: the second day has started empty although the first day     *)
(* ended with a patient on the scanner at the run cutoff.                   *)
C17_Witness ==
    /\ day_num = 1 /\ now = 0
    /\ all_results.completed_scans = <<1>>
    /\ all_results.idle_times = <<<<1675, 1>>>>
    /\ scanners = EmptyPool /\ scanner_events = <<>>

----------------------------------------------------------------------------
(* C18: in the baseline scenario there is no robot pool and no patient      *)
(* requests a robot: robot_waits stays empty day after day, and the run's   *)
(* average robot wait and robot utilisation are 0.                          *)
C18_BaselineWithoutRobots ==
    scenario_name = "baseline" =>
        /\ robots = EmptyPool
        /\ \A i \in 1..Len(request_log) : request_log[i][1] # "robots"
        /\ collected_metrics.robot_waits = <<>>
        /\ collected_metrics.robot_busy = 0
        /\ all_results.robot_waits = <<>>
        /\ run_result.done =>
              /\ run_result.avg_robot_wait = <<0, 1>>
              /\ run_result.avg_robot_util = <<0, 1>>

(* C18 witness: a baseline run of N_SIM_DAYS days has returned, with        *)
(* patients scanned and with CT waits recorded, and no robot figure.        *)
C18_Witness ==
    /\ scenario_name = "baseline"
    /\ run_result.done
    /\ Len(all_results.ct_waits) = N_SIM_DAYS
    /\ run_result.avg_completed_scans = <<1, 1>>
    /\ run_result.avg_robot_util = <<0, 1>>

----------------------------------------------------------------------------
(* The seeded generator.  `random.seed(42)` runs once, when the module is   *)
(* imported; simulate_one_day and run_many_simulations draw from the module *)
(* generator and never seed it.  A seed fixes the stream of draws: `rng`    *)
(* holds that stream (any one the generator could produce, over a few       *)
(* values of random.gauss(12, 3)) and how many draws have been consumed.    *)
(* A call of the entry point is followed through the exam duration it       *)
(* draws for its patient; two calls are made one after the other.           *)

(* Draws the model follows from one seeding *)
StreamLen == 4

GaussStream == {4, 12, 25}

(* `random.seed(42)`: the generator at the start of its stream *)
Seeded(stream) == [stream |-> stream, pos |-> 0]

(* random.gauss: the next value of the stream *)
NextGauss == rng.stream[rng.pos + 1]

InitSeeded ==
    /\ stub = FALSE
    /\ long_prep = FALSE
    /\ variant = WIP
    /\ scenario_name = "baseline"
    /\ NUM_SCANNERS = 1
    /\ NUM_ROBOTS = 1
    /\ arrival_times = <<>>
    /\ now = 0
    /\ queue = {}
    /\ eid = 0
    /\ pc = [proc \in Procs |-> "init"]
    /\ scanners = EmptyPool
    /\ robots = EmptyPool
    /\ time_when_ct_requested = <<>>
    /\ time_when_robot_requested = <<>>
    /\ robot_time = <<>>
    /\ downtime_start = <<>>
    /\ collected_metrics = [robot_waits |-> <<>>, ct_waits |-> <<>>, robot_busy |-> 0]
    /\ scanner_events = <<>>
    /\ day_result = NoResult
    /\ request_log = <<>>
    /\ grant_log = <<>>
    /\ GenIdle
    /\ sampling = NotSampling
    /\ samples = <<>>
    /\ ManyIdle
    /\ FaultIdle
    /\ LaterIdle
    /\ \E stream \in [1..StreamLen -> GaussStream] : rng = Seeded(stream)
    /\ runs = <<>>
    /\ run_exams = <<>>

\* generate_exam_duration inside the call: one pass of its loop
SeededExamDraw ==
    /\ Len(runs) < 2 /\ run_exams = <<>>
    /\ rng.pos < StreamLen
    /\ rng' = [rng EXCEPT !.pos = @ + 1]
    /\ run_exams' = IF ExamInBounds(NextGauss) THEN <<NextGauss>> ELSE run_exams
    /\ UNCHANGED runs
    /\ UNCHANGED <<desVars, genVars, samplerVars, manyVars, faultVars, laterVars>>

\* the call returns; the next call finds the generator where this one left it
SeededReturn ==
    /\ run_exams # <<>>
    /\ runs' = Append(runs, run_exams)
    /\ run_exams' = <<>>
    /\ UNCHANGED rng
    /\ UNCHANGED <<desVars, genVars, samplerVars, manyVars, faultVars, laterVars>>

NextSeeded ==
    \/ SeededExamDraw
    \/ SeededReturn

SpecSeeded == InitSeeded /\ [][NextSeeded]_vars

----------------------------------------------------------------------------
(* C16: two calls of the entry point with the same parameters and the same  *)
(* seed give the same result (the same exam durations, hence the same       *)
(* scanner events), also when the second call follows the first in the      *)
(* same process.                                                            *)
C16_SameSeedSameResult == Len(runs) = 2 => runs[1] = runs[2]

----------------------------------------------------------------------------
(* simulate_one_day called on configuration tables that are wrong in one    *)
(* way: its setup (the pools, the arrivals, the processes) is a step of its *)
(* own, and an exception leaves the call from the setup or from env.run.    *)

ConfigFaults ==
    {"none",
     "missing_step_mean",       \* a STEP_MEANS row without the scenario's column
     "missing_variability",     \* a step without a STEP_SIGMA entry
     "nonpositive_step_mean",   \* STEP_MEANS['A'][scenario] is 0 or less
     "zero_capacity"}           \* NUM_SCANNERS or NUM_ROBOTS is 0

InitConfig ==
    /\ stub = FALSE
    /\ long_prep = FALSE
    /\ variant = WIP
    /\ scenario_name \in Scenarios
    /\ NUM_SCANNERS = 1
    /\ NUM_ROBOTS = 1
    /\ arrival_times \in ManyDayArrivals
    /\ now = 0
    /\ queue = {}
    /\ eid = 0
    /\ pc = [proc \in Procs |-> "init"]
    /\ scanners = EmptyPool
    /\ robots = EmptyPool
    /\ time_when_ct_requested = [proc \in PatientProcs |-> 0]
    /\ time_when_robot_requested = [proc \in PatientProcs |-> 0]
    /\ robot_time = [proc \in PatientProcs |-> 0]
    /\ downtime_start = <<>>
    /\ collected_metrics = [robot_waits |-> <<>>, ct_waits |-> <<>>, robot_busy |-> 0]
    /\ scanner_events = <<>>
    /\ day_result = NoResult
    /\ request_log = <<>>
    /\ grant_log = <<>>
    /\ GenIdle
    /\ sampling = NotSampling
    /\ samples = <<>>
    /\ ManyIdle
    /\ SeedIdle
    /\ LaterIdle
    /\ config_fault \in ConfigFaults
    /\ raised = "none"

NotSetUp == queue = {} /\ eid = 0 /\ raised = "none" /\ ~Done

\* simulate_one_day up to env.run: simpy.Resource raises ValueError for a
\* capacity of 0, the arrival generator's get_theoretical_total raises
\* KeyError for a missing column; otherwise the processes are started.
SetUp ==
    /\ NotSetUp
    /\ IF config_fault \in {"zero_capacity", "missing_step_mean"}
       THEN raised' = "setup" /\ UNCHANGED <<queue, eid>>
       ELSE /\ queue' = InitQueue
            /\ eid' = Cardinality(InitQueue)
            /\ UNCHANGED raised
    /\ UNCHANGED <<cfgVars, now, pc, scanners, robots, time_when_ct_requested,
                   time_when_robot_requested, robot_time, downtime_start,
                   collected_metrics, scanner_events, day_result, request_log,
                   grant_log>>
    /\ UNCHANGED <<genVars, samplerVars, manyVars, seedVars, config_fault, laterVars>>

\* STEP 2 with a step mean that is not positive: get_step_duration raises
\* ValueError in the patient's process, and env.run passes it to the caller.
StepDurationRaises(e) ==
    /\ Running /\ IsNext(e)
    /\ e.kind = "timeout" /\ pc[e.proc] = "scheduled"
    /\ get_step_duration("A", IF manual_transport THEN "baseline" ELSE scenario_name) = {}
    /\ now' = e.time
    /\ queue' = queue \ {e}
    /\ raised' = "run"
    /\ UNCHANGED <<cfgVars, eid, pc, scanners, robots, time_when_ct_requested,
                   time_when_robot_requested, robot_time, downtime_start,
                   collected_metrics, scanner_events, day_result, request_log,
                   grant_log>>
    /\ UNCHANGED <<genVars, samplerVars, manyVars, seedVars, config_fault, laterVars>>

NextConfig ==
    \/ Next
    \/ SetUp
    \/ \E e \in queue : StepDurationRaises(e)

SpecConfig == InitConfig /\ [][NextConfig]_vars

----------------------------------------------------------------------------
(* C15: a configuration error (a missing step mean or variability, a step   *)
(* mean that is not positive, a pool of capacity 0) is rejected by the      *)
(* setup, before any simulated event is processed: no process has run, the  *)
(* clock has not moved, and no exception comes out of the run itself.       *)
C15_ConfigErrorsRejectedAtSetup ==
    config_fault # "none" =>
        /\ raised # "run"
        /\ now = 0
        /\ \A proc \in Procs : pc[proc] = "init"
        /\ ~Done

----------------------------------------------------------------------------
(* The stages of a patient process, by where its generator is suspended     *)

StageOf(at) ==
    CASE at \in {"init", "scheduled"} -> 1                              \* Scheduled
      [] at \in {"transport", "step_a", "robot_wait", "robot_use", "c2"} -> 2  \* Transport
      [] at = "ct_wait" -> 3                                            \* AwaitingScanner
      [] at = "scanning" -> 4                                           \* Scanning
      [] at = "done" -> 5                                               \* Done

----------------------------------------------------------------------------
(* C21: a patient process passes its stages in the order Scheduled,         *)
(* Transport, AwaitingScanner, Scanning, Done, one stage at a time and      *)
(* never backwards; it leaves Scheduled only when simulated time has        *)
(* reached its scheduled time; every scanner event has sched <= start.      *)
C21_StagesInOrder ==
    /\ [](\A i \in 1..Len(scanner_events) :
             /\ scanner_events[i].sched = arrival_times[scanner_events[i].patient_id + 1]
             /\ scanner_events[i].sched <= scanner_events[i].start)
    /\ [][\A proc \in PatientProcs :
             /\ StageOf(pc'[proc]) \in {StageOf(pc[proc]), StageOf(pc[proc]) + 1}
             /\ (StageOf(pc[proc]) = 1 /\ StageOf(pc'[proc]) = 2)
                   => now' >= arrival_times[proc[2] + 1]]_vars

(* C21 witness: a patient scheduled late in the day has passed every stage  *)
(* of the robot-assisted flow and its scan started after its schedule.      *)
C21_Witness ==
    /\ scenario_name = "rovis_only"
    /\ \E i \in 1..Len(scanner_events) :
          /\ scanner_events[i].sched = 1280
          /\ scanner_events[i].start > 1280
          /\ pc[Patient(scanner_events[i].patient_id)] = "done"

----------------------------------------------------------------------------
(* Who is in a pool: as a holder, or with a request in its queue            *)

InPool(res, proc) == InSeq(res.users, proc) \/ InSeq(res.put_queue, proc)

PendingTimeout(proc) == {e \in queue : e.proc = proc /\ e.kind = "timeout"}

----------------------------------------------------------------------------
(* C22: in a robot-assisted scenario a patient requests a robot only after  *)
(* step A has elapsed, keeps it until the whole occupancy has elapsed, and  *)
(* starts scanner prep and requests a scanner only after the release: no    *)
(* patient is in both pools at once, and while a request waits in a pool    *)
(* the run still has an event to process, so the pools cannot deadlock      *)
(* each other.                                                              *)
C22_RobotBeforeScanner ==
    /\ \A proc \in PatientProcs :
          /\ ~(InPool(robots, proc) /\ InPool(scanners, proc))
          /\ InPool(robots, proc) <=> pc[proc] \in {"robot_wait", "robot_use"}
          /\ InPool(scanners, proc) <=> pc[proc] \in {"ct_wait", "scanning"}
          /\ pc[proc] \in {"robot_wait", "robot_use", "c2"} =>
                time_when_robot_requested[proc] - arrival_times[proc[2] + 1]
                    \in LogNormalDraws("A")
          /\ pc[proc] = "robot_use" =>
                /\ InSeq(robots.users, proc)
                /\ \E e \in PendingTimeout(proc) :
                      /\ now <= e.time
                      /\ e.time - robot_time[proc] >= time_when_robot_requested[proc]
          /\ pc[proc] = "c2" => \E e \in PendingTimeout(proc) :
                e.time - now <= 15 /\ ~InPool(robots, proc)
    /\ (Running /\ (scanners.put_queue # <<>> \/ robots.put_queue # <<>>)) =>
          \E e \in queue : e.kind # "until" /\ e.time >= now

(* C22 witness: a patient of a robot scenario is on the scanner after it    *)
(* has held and released a robot, while another patient holds a robot.      *)
C22_Witness ==
    /\ scenario_name = "rovis_only"
    /\ \E p, q \in PatientProcs :
          /\ pc[p] = "scanning" /\ ~InPool(robots, p)
          /\ robot_time[p] > 0
          /\ pc[q] = "robot_use"

----------------------------------------------------------------------------
(* A day of the workflow scenarios (rovis_workflow, wf_only) of the WIP     *)
(* file, with one scanner and one robot: every step is drawn at its mean in *)
(* the column the code asks for.                                            *)

WorkflowDayArrivals == {<<0>>, <<0, 0>>, <<0, 20>>}

InitWorkflowDay ==
    /\ stub = FALSE
    /\ long_prep = FALSE
    /\ variant = WIP
    /\ scenario_name \in WorkflowScenarios
    /\ NUM_SCANNERS = 1
    /\ NUM_ROBOTS = 1
    /\ arrival_times \in WorkflowDayArrivals
    /\ now = 0
    /\ queue = InitQueue
    /\ eid = Cardinality(InitQueue)
    /\ pc = [proc \in Procs |-> "init"]
    /\ scanners = EmptyPool
    /\ robots = EmptyPool
    /\ time_when_ct_requested = [proc \in PatientProcs |-> 0]
    /\ time_when_robot_requested = [proc \in PatientProcs |-> 0]
    /\ robot_time = [proc \in PatientProcs |-> 0]
    /\ downtime_start = <<>>
    /\ collected_metrics = [robot_waits |-> <<>>, ct_waits |-> <<>>, robot_busy |-> 0]
    /\ scanner_events = <<>>
    /\ day_result = NoResult
    /\ request_log = <<>>
    /\ grant_log = <<>>
    /\ GenIdle
    /\ AuxIdle

SpecWorkflowDay == InitWorkflowDay /\ [][Next]_vars

----------------------------------------------------------------------------
(* C23: whatever the uptime draw, the patient keeps the robot it acquired   *)
(* for the whole occupancy B1 + B2 + B3 + C1 + repositioning (23 minutes    *)
(* from the rovis_workflow means, 37 from the baseline means after a        *)
(* failure), releases it exactly once when the occupancy is over, and goes  *)
(* on to scanner prep: no robot is lost and no patient is dropped.          *)
C23_FailureIsTimingFallback ==
    /\ [](\A proc \in PatientProcs :
             /\ pc[proc] = "robot_use" => InSeq(robots.users, proc)
             /\ InPool(robots, proc) <=> pc[proc] \in {"robot_wait", "robot_use"}
             /\ InSeq(robots.users, proc) => CountIn(robots.users, proc) = 1
             /\ (has_robots /\ pc[proc] \in {"robot_use", "c2", "ct_wait", "scanning", "done"})
                   => robot_time[proc] \in {23, 37})
    /\ [][\A proc \in PatientProcs :
             /\ (pc[proc] = "robot_wait" /\ pc'[proc] # "robot_wait") =>
                   /\ pc'[proc] = "robot_use"
                   /\ \E e \in PendingTimeout(proc)' : e.time = now' + robot_time'[proc]
             /\ (pc[proc] = "robot_use" /\ pc'[proc] # "robot_use") =>
                   /\ pc'[proc] = "c2"
                   /\ \E e \in PendingTimeout(proc) : e.time = now'
                   /\ PendingTimeout(proc)' # {}
                   /\ Cardinality({e \in queue' \ queue :
                                      e.kind = "release" /\ e.pool = "robots"}) = 1
                   /\ collected_metrics'.robot_busy =
                         collected_metrics.robot_busy + robot_time[proc]]_vars

(* C23 witness: of two patients one had a working robot and one a failed    *)
(* robot; both have released it and have gone on to the scanner.            *)
C23_Witness ==
    \E p, q \in PatientProcs :
        /\ robot_time[p] = 23 /\ robot_time[q] = 37
        /\ pc[p] \in {"ct_wait", "scanning", "done"}
        /\ pc[q] \in {"ct_wait", "scanning", "done"}
        /\ robots = EmptyPool
        /\ collected_metrics.robot_busy = 60

----------------------------------------------------------------------------
(* C25: in the wf_only scenario a patient's transport delay, from its       *)
(* scheduled time to its scanner request, is drawn with the wf_only mean of *)
(* step A (35) and the baseline means of B1, B2, B3, C1 and C2 (12, 3, 7,   *)
(* 5, 2): 64 minutes when every step is drawn at its mean, not the 81 of    *)
(* the baseline scenario.                                                   *)
C25_WorkflowOnlyTransportIsFaster ==
    scenario_name = "wf_only" =>
        \A proc \in PatientProcs :
            pc[proc] \in {"ct_wait", "scanning", "done"} =>
                time_when_ct_requested[proc] - arrival_times[proc[2] + 1] = 64

----------------------------------------------------------------------------
(* The scanner event of a patient that was granted a scanner *)
EventOf(proc) ==
    scanner_events[CHOOSE i \in 1..Len(scanner_events) :
                       scanner_events[i].patient_id = proc[2]]

----------------------------------------------------------------------------
(* C24: a patient granted a scanner at `start` holds the unit, without      *)
(* interruption, for exam_duration + TURNOVER_MINUTES (9 or 29 minutes for  *)
(* exams of 5 or 25): it is among the users from the grant until simulated  *)
(* time is the recorded `end`, it leaves them at exactly that time, and the *)
(* users never outnumber the scanners meanwhile.                            *)
C24_HoldNeverCutShort ==
    /\ [](/\ Len(scanners.users) <= NUM_SCANNERS
          /\ \A proc \in PatientProcs :
                pc[proc] = "scanning" =>
                   /\ CountIn(scanners.users, proc) = 1
                   /\ EventOf(proc).end - EventOf(proc).start \in {9, 29}
                   /\ EventOf(proc).start <= now /\ now <= EventOf(proc).end
                   /\ \E e \in PendingTimeout(proc) : e.time = EventOf(proc).end)
    /\ [][\A proc \in PatientProcs :
             /\ (pc[proc] = "scanning" /\ pc'[proc] # "scanning") =>
                   /\ pc'[proc] = "done"
                   /\ now' = EventOf(proc).end
                   /\ ~InSeq(scanners'.users, proc)
             /\ (InSeq(scanners.users, proc) /\ ~InSeq(scanners'.users, proc)) =>
                   pc[proc] = "scanning" /\ now' = EventOf(proc).end
             /\ (pc[proc] = "scanning" /\ pc'[proc] = "scanning") =>
                   EventOf(proc)' = EventOf(proc)]_vars

(* C24 witness: a patient has left the scanner at its recorded end while a  *)
(* maintenance request and another patient were waiting for the unit.       *)
C24_Witness ==
    /\ NUM_SCANNERS = 1
    /\ \E p, q \in PatientProcs :
          /\ pc[p] = "done" /\ now = EventOf(p).end
          /\ pc[q] = "ct_wait" /\ InSeq(scanners.put_queue, q)
          /\ \E m \in MaintProcs : InSeq(scanners.put_queue, m)

----------------------------------------------------------------------------
(* C26: the idle time per scanner of a simulated day is a number of minutes *)
(* of the day, 0 <= idle_per_scanner <= DAY_LENGTH_MIN, also when a scan    *)
(* starts or ends in the buffer after the day boundary.  (idle_per_scanner  *)
(* is total_idle_time / NUM_SCANNERS.)                                      *)
C26_IdleWithinDay ==
    Done => /\ 0 <= day_result.total_idle_time
            /\ day_result.total_idle_time <= DAY_LENGTH_MIN * NUM_SCANNERS

----------------------------------------------------------------------------
(* C27: at every point of a run the scanner_events list is in nondecreasing *)
(* order of start, as it was appended; sorting it by start, as the          *)
(* post-pass does, leaves it as it is.                                      *)
C27_AppendedInStartOrder ==
    /\ \A i, j \in 1..Len(scanner_events) :
          i < j => scanner_events[i].start <= scanner_events[j].start
    /\ SortByStart(scanner_events) = scanner_events
    /\ \A i \in 1..Len(scanner_events) : scanner_events[i].start <= now

(* C27 witness: two events with different starts were appended, the later   *)
(* patient's first.                                                         *)
C27_Witness ==
    /\ Len(scanner_events) = 2
    /\ scanner_events[1].patient_id > scanner_events[2].patient_id
    /\ scanner_events[1].start < scanner_events[2].start

----------------------------------------------------------------------------
(* A request waits in the pool although a unit is free *)
WaitsAtFreeUnit(res, capacity) == res.put_queue # <<>> /\ HasFreeUnit(res, capacity)

ReleasePending(pool) ==
    \E e \in queue : e.kind = "release" /\ e.pool = pool /\ e.time = now

(* C28 as claimed: in every reachable state, a pool in whose queue a        *)
(* request waits has all its units held; every recorded wait is >= 0.       *)
C28_WorkConserving ==
    /\ ~WaitsAtFreeUnit(scanners, ScannerCapacity)
    /\ ~WaitsAtFreeUnit(robots, RobotCapacity)
    /\ \A i \in 1..Len(collected_metrics.ct_waits) : collected_metrics.ct_waits[i] >= 0
    /\ \A i \in 1..Len(collected_metrics.robot_waits) : collected_metrics.robot_waits[i] >= 0

(* C28 as amended: a request waits at a free unit only in the instant       *)
(* between a release and the processing of its Release event, which is      *)
(* pending at the current simulated time: simulated time never advances     *)
(* while a request waits at a free unit, so a recorded wait is greater than *)
(* 0 only if every unit was held throughout; every recorded wait is >= 0.   *)
C28_WorkConservingOverTime ==
    /\ WaitsAtFreeUnit(scanners, ScannerCapacity) => ReleasePending("scanners")
    /\ WaitsAtFreeUnit(robots, RobotCapacity) => ReleasePending("robots")
    /\ \A i \in 1..Len(collected_metrics.ct_waits) : collected_metrics.ct_waits[i] >= 0
    /\ \A i \in 1..Len(collected_metrics.robot_waits) : collected_metrics.robot_waits[i] >= 0

(* C28 witness: a scanner was released while a request waits for it, the    *)
(* Release event is not yet processed, and positive waits were recorded for *)
(* both pools.                                                              *)
C28_Witness ==
    /\ WaitsAtFreeUnit(scanners, ScannerCapacity) /\ ReleasePending("scanners")
    /\ \E i \in 1..Len(collected_metrics.ct_waits) : collected_metrics.ct_waits[i] > 0
    /\ \E i \in 1..Len(collected_metrics.robot_waits) : collected_metrics.robot_waits[i] > 0

----------------------------------------------------------------------------
(* simulate_day (ct_scan_shands_original.py, ct_scan_shands_new.py): one    *)
(* scanner, the day's exams served in a loop over the schedule slots.       *)

(* Exams per day in the model (the sources schedule 12) *)
EXAMS_PER_DAY_PER_SCANNER == 3

schedule_interval == 60

(* Draws of delay_fn(): short, longer than a slot, longer than three slots  *)
DelayDraws == {10, 70, 200}

(* Draws of exam_duration(): both bounds *)
DurationDraws == {5, 25}

(* The discrete-event simulation's variables while another study runs *)
DesIdle ==
    /\ stub = FALSE
    /\ long_prep = FALSE
    /\ variant = WIP
    /\ scenario_name = "baseline"
    /\ NUM_SCANNERS = 1
    /\ NUM_ROBOTS = 1
    /\ arrival_times = <<>>
    /\ now = 0
    /\ queue = {}
    /\ eid = 0
    /\ pc = [proc \in Procs |-> "init"]
    /\ scanners = EmptyPool
    /\ robots = EmptyPool
    /\ time_when_ct_requested = <<>>
    /\ time_when_robot_requested = <<>>
    /\ robot_time = <<>>
    /\ downtime_start = <<>>
    /\ collected_metrics = [robot_waits |-> <<>>, ct_waits |-> <<>>, robot_busy |-> 0]
    /\ scanner_events = <<>>
    /\ day_result = NoResult
    /\ request_log = <<>>
    /\ grant_log = <<>>

InitSimulateDay ==
    /\ DesIdle
    /\ GenIdle
    /\ AuxIdle

ExamStart_OnArrival(arrival, free) == arrival

(* `start = max(arrival, ct_free)` *)
ExamStart(arrival, free) == Max2(arrival, free)

\* one pass of the loop: exam i is drawn, started and accounted
SimulateDayExam ==
    /\ exam_index < EXAMS_PER_DAY_PER_SCANNER
    /\ \E delay \in DelayDraws, dur \in DurationDraws :
          LET sched == exam_index * schedule_interval
              arrival == sched + delay
              start == ExamStart(arrival, ct_free)
              new_idle == IF start > ct_free THEN idle + (start - ct_free) ELSE idle
          IN /\ idle' = new_idle
             /\ ct_free' = start + dur
             /\ exams' = Append(exams, [sched |-> sched, arrival |-> arrival,
                                        start |-> start, dur |-> dur,
                                        idle |-> new_idle])
    /\ exam_index' = exam_index + 1
    /\ UNCHANGED <<desVars, genVars, samplerVars, manyVars, seedVars, faultVars, payVars>>

NextSimulateDay == SimulateDayExam

SpecSimulateDay == InitSimulateDay /\ [][NextSimulateDay]_vars

RECURSIVE SumDur(_)
SumDur(served) == IF served = <<>> THEN 0 ELSE Head(served).dur + SumDur(Tail(served))

----------------------------------------------------------------------------
(* C29: in simulate_day, after every exam ct_free = idle + the durations of *)
(* the exams served so far; idle never decreases; exam starts do not        *)
(* decrease and no two exams overlap; exams are served in schedule order,   *)
(* also when a later-scheduled patient arrives before an earlier one.       *)
C29_SingleScannerDay ==
    /\ Len(exams) = exam_index
    /\ ct_free = idle + SumDur(exams)
    /\ idle >= 0
    /\ exams # <<>> => /\ exams[Len(exams)].idle = idle
                       /\ exams[Len(exams)].start + exams[Len(exams)].dur = ct_free
    /\ \A k \in 1..Len(exams) :
          /\ exams[k].sched = (k - 1) * 60
          /\ exams[k].start >= exams[k].arrival
    /\ \A k \in 1..(Len(exams) - 1) :
          /\ exams[k].idle <= exams[k + 1].idle
          /\ exams[k].start <= exams[k + 1].start
          /\ exams[k].start + exams[k].dur <= exams[k + 1].start

(* C29 witness: the patient of the second slot arrived before the patient   *)
(* of the first slot and was served after it; the day's exams are done.     *)
C29_Witness ==
    /\ exam_index = EXAMS_PER_DAY_PER_SCANNER
    /\ exams[2].arrival < exams[1].arrival
    /\ exams[2].start = exams[1].start + exams[1].dur
    /\ idle > 0

----------------------------------------------------------------------------
(* calculate_simple_payback_period (payback_period.py).  Amounts are whole  *)
(* numbers; the returned period is kept in hundredths of a month.           *)

(* Months of cash flow after the initial one *)
MaxMonths == 3

InitialFlows == {-100, -75}
MonthlyFlows == {-50, 25, 100}

CashFlowLists ==
    UNION {{<<first>> \o rest : first \in InitialFlows, rest \in [1..k -> MonthlyFlows]} :
              k \in 0..MaxMonths}

ReturnsNone == [returned |-> TRUE, none |-> TRUE, x100 |-> 0]
ReturnsValue(x100) == [returned |-> TRUE, none |-> FALSE, x100 |-> x100]

(* round(month + (cumulative_cash_flow - cash_flow) / cash_flow, 2) *)
PaybackAt(month, cumulative_cash_flow, cash_flow) ==
    RoundHalfEven(100 * (month * cash_flow + (cumulative_cash_flow - cash_flow)),
                  cash_flow)

(* the loop from `month` on, entered with the cumulative sum of the months  *)
(* before it                                                                *)
RECURSIVE PaybackFrom(_, _, _)
PaybackFrom(flows, month, cumulative_before) ==
    IF month >= Len(flows) THEN ReturnsNone
    ELSE LET cash_flow == flows[month + 1]
             cumulative_cash_flow == cumulative_before + cash_flow
         IN IF cumulative_cash_flow >= 0
            THEN ReturnsValue(PaybackAt(month, cumulative_cash_flow, cash_flow))
            ELSE PaybackFrom(flows, month + 1, cumulative_cash_flow)

calculate_simple_payback_period(flows) == PaybackFrom(flows, 0, 0)

InitPayback ==
    /\ DesIdle
    /\ GenIdle
    /\ sampling = NotSampling
    /\ samples = <<>>
    /\ ManyIdle
    /\ SeedIdle
    /\ FaultIdle
    /\ DayIdle
    /\ cash_flows \in CashFlowLists
    /\ payback = NotReturned

\* the function is called on the list and returns
PaybackCall ==
    /\ ~payback.returned
    /\ payback' = calculate_simple_payback_period(cash_flows)
    /\ UNCHANGED cash_flows
    /\ UNCHANGED <<desVars, genVars, samplerVars, manyVars, seedVars, faultVars, dayVars>>

NextPayback == PaybackCall

SpecPayback == InitPayback /\ [][NextPayback]_vars

(* The cumulative cash flow through month m (months count from 0) *)
PrefixSum(flows, m) == SumSeq(SubSeq(flows, 1, m + 1))

Recovered(flows) == {m \in 0..(Len(flows) - 1) : PrefixSum(flows, m) >= 0}

FirstRecovered(flows) ==
    CHOOSE m \in Recovered(flows) : \A n \in Recovered(flows) : m <= n

----------------------------------------------------------------------------
(* C30: for a list of monthly cash flows that starts with a negative entry, *)
(* calculate_simple_payback_period returns None exactly when no cumulative  *)
(* sum is >= 0; otherwise, with m the first month whose cumulative sum is   *)
(* >= 0, it returns (m - 1) + (unrecovered amount before month m) /         *)
(* cash_flows[m], rounded to 2 decimals.                                    *)
C30_InterpolatedBreakEven ==
    payback.returned =>
        IF Recovered(cash_flows) = {} THEN payback.none
        ELSE LET m == FirstRecovered(cash_flows)
                 unrecovered == 0 - PrefixSum(cash_flows, m - 1)
             IN /\ ~payback.none
                /\ payback.x100 =
                      RoundHalfEven(100 * ((m - 1) * cash_flows[m + 1] + unrecovered),
                                    cash_flows[m + 1])

====
